---- MODULE Spec2Model ----
(***************************************************************************)
(* A model of the chirpy web server: the JSON-file backed record store of  *)
(* package database (users, chirps, revoked refresh tokens, one RWMutex,   *)
(* full-file rewrite) and the HTTP handlers of main.go that authenticate   *)
(* requests with JWTs and call the store.                                  *)
(*                                                                         *)
(* Strings the code parses or scans (ids in URLs and JWT subjects,         *)
(* passwords, chirp bodies) are sequences of one-character strings; the    *)
(* other strings (emails, issuers, event names) are atoms.                 *)
(***************************************************************************)
EXTENDS Integers, Sequences, FiniteSets, TLC

VARIABLES
    dbstruct,   \* DB.dbstruct: [Users, Chirps, RevokedRefreshTokens], the in-memory maps
    file,       \* contents of the backing file database.json
    faults,     \* how many more times the disk will fail a writeDB
    proc,       \* [epoch, alive]: the server process, its incarnation and whether it runs
    now,        \* time.Now(), in hours
    ticks,      \* how many times the clock has advanced
    issued,     \* the token strings the server has signed so far (held by clients)
    resp,       \* the request handled by the last step and the response to it
    maxIdGiven, \* the highest id CreateChirp has given to a chirp so far
    upgradeEvents, \* the user ids of the user.upgraded webhook events acknowledged so far
    mux,        \* DB.mux: [writer, readers], the RWMutex
    thr,        \* per goroutine: the store call it is in, its position and its locals
    fh          \* per goroutine: the file handle writeDB holds, [open, buf]

vars ==
    <<dbstruct, file, faults, proc, now, ticks, issued, resp, maxIdGiven, upgradeEvents,
      mux, thr, fh>>

-----------------------------------------------------------------------------
(* Bounds of the model *)

MaxUsers == 2        \* registrations are accepted while fewer users are stored
MaxChirps == 2       \* chirps are created while fewer chirps are stored
MaxTokens == 4       \* login and refresh sign tokens while fewer are outstanding
MaxTicks == 2        \* number of times the clock advances
MaxEpochs == 2       \* number of times the process is started
MaxFaults == 1       \* number of writes a faulty disk fails
MaxConcUsers == 1    \* users created while goroutines run concurrently
MaxConcChirps == 1   \* chirps stored while goroutines run concurrently

(* Program constants *)

MaxChirpLen == 140   \* CreateChirp: len(newChirp.Body) > 140
MinPasswordLen == 8  \* isPasswordStrong: len(password) < 8
AccessHours == 1     \* time.Duration(1) * time.Hour
RefreshHours == 1440 \* time.Duration(24*60) * time.Hour
BcryptCost == 13     \* bcrypt.GenerateFromPassword(..., 13)
BcryptMaxLen == 72   \* bcrypt.GenerateFromPassword fails on a longer password

-----------------------------------------------------------------------------
(* Strings *)

Digits == <<"0", "1", "2", "3", "4", "5", "6", "7", "8", "9">>

UpperAlpha ==
    <<"A", "B", "C", "D", "E", "F", "G", "H", "I", "J", "K", "L", "M",
      "N", "O", "P", "Q", "R", "S", "T", "U", "V", "W", "X", "Y", "Z">>

LowerAlpha ==
    <<"a", "b", "c", "d", "e", "f", "g", "h", "i", "j", "k", "l", "m",
      "n", "o", "p", "q", "r", "s", "t", "u", "v", "w", "x", "y", "z">>

PunctChars == {"!", "~", "*", "$", "."}

Range(s) == {s[i] : i \in 1..Len(s)}

IsUpper(c) == c \in Range(UpperAlpha)
IsLower(c) == c \in Range(LowerAlpha)
IsDigit(c) == c \in Range(Digits)
IsPunctOrSymbol(c) == c \in PunctChars

\* strings.ToLower on one character
ToLowerChar(c) ==
    IF IsUpper(c)
    THEN LowerAlpha[CHOOSE i \in 1..Len(UpperAlpha) : UpperAlpha[i] = c]
    ELSE c

\* strings.ToLower
ToLower(s) == [i \in 1..Len(s) |-> ToLowerChar(s[i])]

\* strconv.Itoa / fmt.Sprintf("%d", n) for n >= 0
RECURSIVE Itoa(_)
Itoa(n) ==
    IF n < 10 THEN <<Digits[n + 1]>>
    ELSE Itoa(n \div 10) \o <<Digits[(n % 10) + 1]>>

DigitVal(c) == (CHOOSE i \in 1..Len(Digits) : Digits[i] = c) - 1

RECURSIVE AtoiVal(_)
AtoiVal(s) ==
    IF Len(s) = 0 THEN 0
    ELSE 10 * AtoiVal(SubSeq(s, 1, Len(s) - 1)) + DigitVal(s[Len(s)])

\* strconv.Atoi: [err, val]; err on the empty string and on a non-digit
Atoi(s) ==
    IF Len(s) > 0 /\ \A i \in 1..Len(s) : IsDigit(s[i])
    THEN [err |-> FALSE, val |-> AtoiVal(s)]
    ELSE [err |-> TRUE, val |-> 0]

\* strings.Split(s, " "): the pieces between single spaces, empty pieces kept
RECURSIVE Split(_)
Split(s) ==
    IF \A i \in 1..Len(s) : s[i] # " " THEN <<s>>
    ELSE LET k == CHOOSE i \in 1..Len(s) :
                      s[i] = " " /\ \A j \in 1..(i - 1) : s[j] # " "
         IN  <<SubSeq(s, 1, k - 1)>> \o Split(SubSeq(s, k + 1, Len(s)))

\* strings.Join(words, " ")
RECURSIVE Join(_)
Join(words) ==
    IF Len(words) = 0 THEN <<>>
    ELSE IF Len(words) = 1 THEN words[1]
    ELSE words[1] \o <<" ">> \o Join(Tail(words))

-----------------------------------------------------------------------------
(* Content filter, password strength, credential hasher *)

BadWordReplacement == <<"*", "*", "*", "*">>

ListOfBadWords ==
    << <<"k", "e", "r", "f", "u", "f", "f", "l", "e">>,
       <<"s", "h", "a", "r", "b", "e", "r", "t">>,
       <<"f", "o", "r", "n", "a", "x">> >>

\* a filter that stops after the first word it replaced
censorChirp_FirstOnly(listOfBadWords, s, badWordReplacement) ==
    LET chirpWords == Split(s)
        IsBad(i) == \E b \in 1..Len(listOfBadWords) :
                       ToLower(chirpWords[i]) = listOfBadWords[b]
        censored == [i \in 1..Len(chirpWords) |->
                        IF IsBad(i) /\ \A j \in 1..(i - 1) : ~IsBad(j)
                        THEN badWordReplacement
                        ELSE chirpWords[i]]
    IN  Join(censored)

\* censorChirp: every piece of strings.Split(s, " ") whose lower-case form
\* equals a bad word is replaced, the pieces are joined with " " again
censorChirp(listOfBadWords, s, badWordReplacement) ==
    LET chirpWords == Split(s)
        censored == [i \in 1..Len(chirpWords) |->
                        IF \E b \in 1..Len(listOfBadWords) :
                               ToLower(chirpWords[i]) = listOfBadWords[b]
                        THEN badWordReplacement
                        ELSE chirpWords[i]]
    IN  Join(censored)

isPasswordStrong(password) ==
    /\ ~(Len(password) < MinPasswordLen)
    /\ \E i \in 1..Len(password) : IsUpper(password[i])
    /\ \E i \in 1..Len(password) : IsLower(password[i])
    /\ \E i \in 1..Len(password) : IsDigit(password[i])
    /\ \E i \in 1..Len(password) : IsPunctOrSymbol(password[i])

\* the "$2a$13$" prefix of a bcrypt hash of cost 13
BcryptPrefix == <<"$", "2", "a", "$">> \o Itoa(BcryptCost) \o <<"$">>

\* a hasher that returns the password
bcryptGenerateFromPassword_Plain(password) == password

\* bcrypt.GenerateFromPassword(password, 13): the salt is left out, the hash
\* of a password is the prefix followed by an image of the password
bcryptGenerateFromPassword(password) == BcryptPrefix \o password

\* bcrypt.GenerateFromPassword returns ErrPasswordTooLong
bcryptTooLong(password) == Len(password) > BcryptMaxLen

\* a comparison that never fails
bcryptCompareHashAndPassword_Always(hash, password) == TRUE

\* bcrypt.CompareHashAndPassword(hash, password) = nil
bcryptCompareHashAndPassword(hash, password) ==
    /\ Len(hash) >= Len(BcryptPrefix)
    /\ SubSeq(hash, 1, Len(BcryptPrefix)) = BcryptPrefix
    /\ SubSeq(hash, Len(BcryptPrefix) + 1, Len(hash)) = password

-----------------------------------------------------------------------------
(* Go maps as functions with a finite domain *)

EmptyMap == <<>>

MapPut(m, k, v) == [x \in (DOMAIN m) \cup {k} |-> IF x = k THEN v ELSE m[x]]

MapDelete(m, k) == [x \in (DOMAIN m) \ {k} |-> m[x]]

SetMax(S) == IF S = {} THEN 0 ELSE CHOOSE x \in S : \A y \in S : y <= x

\* a new id that forgets the "+ 1"
NewId_NoIncrement(m) == SetMax(DOMAIN m)

\* the "maxId := 0; for id := range m { if id > maxId {...} }; newId := maxId + 1" loops
NewId(m) == SetMax(DOMAIN m) + 1

-----------------------------------------------------------------------------
(* The record store: package database *)

\* DBStructure as NewDB allocates it
EmptyDBStructure ==
    [Users |-> EmptyMap, Chirps |-> EmptyMap, RevokedRefreshTokens |-> EmptyMap]

\* json.Encoder.Encode(db.dbstruct): objects keyed by the decimal form of the
\* id, fields under their json tags
EncodeUser(u) ==
    [id |-> u.Id, email |-> u.Email, password |-> u.Password,
     is_chirpy_red |-> u.Is_chirpy_red]

EncodeChirp(c) == [id |-> c.Id, body |-> c.Body, author_id |-> c.Author_id]

EncodeJSON(db) ==
    [users |-> [k \in {Itoa(id) : id \in DOMAIN db.Users} |->
                   EncodeUser(db.Users[Atoi(k).val])],
     chirps |-> [k \in {Itoa(id) : id \in DOMAIN db.Chirps} |->
                   EncodeChirp(db.Chirps[Atoi(k).val])],
     revoked_refresh_tokens |-> db.RevokedRefreshTokens]

\* json.Decoder.Decode(&db.dbstruct)
DecodeUser(j) ==
    [Id |-> j.id, Email |-> j.email, Password |-> j.password,
     Is_chirpy_red |-> j.is_chirpy_red]

DecodeChirp(j) == [Id |-> j.id, Body |-> j.body, Author_id |-> j.author_id]

DecodeJSON(doc) ==
    [Users |-> [id \in {Atoi(k).val : k \in DOMAIN doc.users} |->
                   DecodeUser(doc.users[Itoa(id)])],
     Chirps |-> [id \in {Atoi(k).val : k \in DOMAIN doc.chirps} |->
                   DecodeChirp(doc.chirps[Itoa(id)])],
     RevokedRefreshTokens |-> doc.revoked_refresh_tokens]

\* the backing file: zero bytes, or one JSON document
EmptyFile == [kind |-> "empty", doc |-> EncodeJSON(EmptyDBStructure)]

JSONFile(doc) == [kind |-> "json", doc |-> doc]

\* no file at the path
AbsentFile == [kind |-> "absent", doc |-> EncodeJSON(EmptyDBStructure)]

\* an open that creates nothing
OpenFileCreate_NoCreate(f) == f

\* NewDB: os.OpenFile(path, O_APPEND|O_CREATE|O_WRONLY) creates the file when
\* there is none and leaves an existing one as it is
OpenFileCreate(f) == IF f.kind = "absent" THEN EmptyFile ELSE f

\* loadDB: an empty file makes Decode fail with EOF and leaves the maps NewDB
\* allocated; otherwise the document is decoded into them
loadDB(f) ==
    IF f.kind = "empty" THEN EmptyDBStructure ELSE DecodeJSON(f.doc)

\* writeDB: os.OpenFile(O_WRONLY|O_TRUNC) and Encode.  d is what the disk does:
\* "openfail" leaves the file alone, "writefail" leaves it truncated.
writeDB(db, f, d) ==
    IF d = "openfail" THEN [file |-> f, err |-> TRUE]
    ELSE IF d = "writefail" THEN [file |-> EmptyFile, err |-> TRUE]
    ELSE [file |-> JSONFile(EncodeJSON(db)), err |-> FALSE]

\* what the disk can do to the next writeDB
DiskOutcomes(n) == IF n > 0 THEN {"ok", "openfail", "writefail"} ELSE {"ok"}

\* a check that returns ok instead of !ok
CheckRefreshTokenIsValid_Inverted(db, token) == token \in DOMAIN db.RevokedRefreshTokens

\* CheckRefreshTokenIsValid: _, ok := RevokedRefreshTokens[token]; return !ok
CheckRefreshTokenIsValid(db, token) == token \notin DOMAIN db.RevokedRefreshTokens

\* a revocation that replaces the map instead of adding to it
RevokeRefreshTokenMem_Replacing(db, token) ==
    [db EXCEPT !.RevokedRefreshTokens = MapPut(EmptyMap, token, TRUE)]

\* a revocation that takes a token out of the map when it is there
RevokeRefreshTokenMem_Toggling(db, token) ==
    [db EXCEPT !.RevokedRefreshTokens =
        IF token \in DOMAIN @ THEN MapDelete(@, token) ELSE MapPut(@, token, TRUE)]

\* RevokeRefreshToken, the map update: RevokedRefreshTokens[token] = true
RevokeRefreshTokenMem(db, token) ==
    [db EXCEPT !.RevokedRefreshTokens = MapPut(@, token, TRUE)]

\* a CreateNewUser without "user.Is_chirpy_red = false"
CreateNewUserRec_KeepsFlag(db, user) ==
    [Id |-> NewId(db.Users),
     Email |-> user.Email,
     Password |-> bcryptGenerateFromPassword(user.Password),
     Is_chirpy_red |-> user.Is_chirpy_red]

\* CreateNewUser, up to the map update: the new id, the hashed password and
\* the false flag overwrite what the caller passed
CreateNewUserRec(db, user) ==
    [Id |-> NewId(db.Users),
     Email |-> user.Email,
     Password |-> bcryptGenerateFromPassword(user.Password),
     Is_chirpy_red |-> FALSE]

CreateNewUserMem(db, user) ==
    [db EXCEPT !.Users = MapPut(@, NewId(db.Users), CreateNewUserRec(db, user))]

\* a length check made on the censored body
ChirpTooLong_AfterFilter(chirp) ==
    Len(censorChirp(ListOfBadWords, chirp.Body, BadWordReplacement)) > MaxChirpLen

\* CreateChirp: the length check
ChirpTooLong(chirp) == Len(chirp.Body) > MaxChirpLen

\* a CreateChirp that stores the body as it came
CreateChirpRec_Uncensored(db, newChirp) ==
    [Id |-> NewId(db.Chirps), Body |-> newChirp.Body, Author_id |-> newChirp.Author_id]

\* a CreateChirp that keeps an id the caller passed
CreateChirpRec_KeepsId(db, newChirp) ==
    [Id |-> IF newChirp.Id # 0 THEN newChirp.Id ELSE NewId(db.Chirps),
     Body |-> censorChirp(ListOfBadWords, newChirp.Body, BadWordReplacement),
     Author_id |-> newChirp.Author_id]

\* CreateChirp, after the length check: censored body, new id
CreateChirpRec(db, newChirp) ==
    [Id |-> NewId(db.Chirps),
     Body |-> censorChirp(ListOfBadWords, newChirp.Body, BadWordReplacement),
     Author_id |-> newChirp.Author_id]

CreateChirpMem(db, newChirp) ==
    [db EXCEPT !.Chirps = MapPut(@, NewId(db.Chirps), CreateChirpRec(db, newChirp))]

\* UpdateUser: the password is hashed and the record stored under user.Id,
\* whether or not a user with that id exists
UpdateUserRec(user) ==
    [user EXCEPT !.Password = bcryptGenerateFromPassword(user.Password)]

UpdateUserMem(db, user) ==
    [db EXCEPT !.Users = MapPut(@, user.Id, UpdateUserRec(user))]

\* GetUser: [err, val]; the zero User is what a Go map read gives for an
\* absent key
NoUser == [Id |-> 0, Email |-> "", Password |-> <<>>, Is_chirpy_red |-> FALSE]

GetUser(db, id) ==
    IF id \in DOMAIN db.Users THEN [err |-> FALSE, val |-> db.Users[id]]
    ELSE [err |-> TRUE, val |-> NoUser]

\* an upgrade that does not look at "ok"
UpgradeFound_Always(db, userId) == TRUE

\* UpgradeUserToChirpyRed: "if user, ok := Users[userId]; ok"
UpgradeFound(db, userId) == userId \in DOMAIN db.Users

\* "user.Is_chirpy_red = true; Users[userId] = user"
UpgradeUserToChirpyRedMem(db, userId) ==
    [db EXCEPT !.Users =
        MapPut(@, userId, [GetUser(db, userId).val EXCEPT !.Is_chirpy_red = TRUE])]

\* DeleteChirp: "if _, ok := Chirps[chirpId]; ok { delete(...) }"
DeleteFound(db, chirpId) == chirpId \in DOMAIN db.Chirps

DeleteChirpMem(db, chirpId) == [db EXCEPT !.Chirps = MapDelete(@, chirpId)]

\* GetChirp: [err, val]
NoChirp == [Id |-> 0, Body |-> <<>>, Author_id |-> 0]

GetChirp(db, id) ==
    IF id \in DOMAIN db.Chirps THEN [err |-> FALSE, val |-> db.Chirps[id]]
    ELSE [err |-> TRUE, val |-> NoChirp]

\* the chirps of a set as a list, by id
RECURSIVE AscendingById(_)
AscendingById(S) ==
    IF S = {} THEN <<>>
    ELSE LET c == CHOOSE x \in S : \A y \in S : x.Id <= y.Id
         IN  <<c>> \o AscendingById(S \ {c})

RECURSIVE DescendingById(_)
DescendingById(S) ==
    IF S = {} THEN <<>>
    ELSE LET c == CHOOSE x \in S : \A y \in S : x.Id >= y.Id
         IN  <<c>> \o DescendingById(S \ {c})

StoredChirps(db) == {db.Chirps[key] : key \in DOMAIN db.Chirps}

\* a listing that is not sorted: the chirps as the map iteration yields them
GetChirpsAsc_Unsorted(db) == DescendingById(StoredChirps(db))

\* GetChirps: the chirps appended in map order, then sort.Slice by Id with "<"
GetChirpsAsc(db) == AscendingById(StoredChirps(db))

\* GetChirps(orderScheme): "desc" lists by descending id, "asc" as above
GetChirps(db, orderScheme) ==
    IF orderScheme = "desc" THEN DescendingById(StoredChirps(db)) ELSE GetChirpsAsc(db)

\* GetChirpsByAuthor(authorId, orderScheme): the chirps of that author, in
\* the same order; no chirps give an empty list
GetChirpsByAuthor(db, authorId, orderScheme) ==
    LET own == {c \in StoredChirps(db) : c.Author_id = authorId}
    IN  IF orderScheme = "desc" THEN DescendingById(own) ELSE AscendingById(own)

\* GetUsers: the users in the order the map iteration yields them, no order
\* promised; the callers only scan the list
GetUsers(db) == {db.Users[id] : id \in DOMAIN db.Users}

-----------------------------------------------------------------------------
(* JSON web tokens: github.com/golang-jwt/jwt/v5 as main.go uses it *)

AccessIssuer == "chirpy-access"

\* a refresh role that carries the issuer of the access role
RefreshIssuer_SameAsAccess == "chirpy-access"

RefreshIssuer == "chirpy-refresh"

\* jwt.NewWithClaims(SigningMethodHS256, RegisteredClaims{...}).SignedString(jwtSecret).
\* sig tells how the string was made: "HS256" signed with jwtSecret, "forged"
\* HMAC-signed with another key, "none" not HMAC-signed, "malformed" not a JWT.
SignedToken(issuer, subject, iat, hours) ==
    [Issuer |-> issuer, Subject |-> subject, IssuedAt |-> iat,
     ExpiresAt |-> iat + hours, sig |-> "HS256"]

GarbageToken ==
    [Issuer |-> "", Subject |-> <<>>, IssuedAt |-> 0, ExpiresAt |-> 0,
     sig |-> "malformed"]

\* a validation that does not look at the expiry
validateToken_NoExpiry(tokenString, n) ==
    IF tokenString.sig # "HS256" THEN [err |-> "signature", token |-> GarbageToken]
    ELSE [err |-> "", token |-> tokenString]

\* validateToken: jwt.ParseWithClaims with the keyFunc that accepts HMAC only;
\* the library checks the form, the method, the signature, then the expiry
\* (a token is expired unless now is before ExpiresAt).  err = "" is success.
validateToken(tokenString, n) ==
    IF tokenString.sig = "malformed" THEN [err |-> "malformed", token |-> GarbageToken]
    ELSE IF tokenString.sig = "none" THEN [err |-> "unverifiable", token |-> GarbageToken]
    ELSE IF tokenString.sig # "HS256" THEN [err |-> "signature", token |-> GarbageToken]
    ELSE IF ~(n < tokenString.ExpiresAt) THEN [err |-> "expired", token |-> GarbageToken]
    ELSE [err |-> "", token |-> tokenString]

\* getAuthTokenFromHeader: header is strings.Split(authHeader, " "); the
\* credential is the second of exactly two pieces, the first is not looked at
getAuthTokenFromHeader(header) ==
    IF Len(header) # 2 THEN [err |-> "no token provided", tokenString |-> GarbageToken]
    ELSE [err |-> "", tokenString |-> header[2]]

\* getJWTAndValidate: [err, tokenString, token]
getJWTAndValidate(header, n) ==
    LET h == getAuthTokenFromHeader(header)
        v == validateToken(h.tokenString, n)
    IN  IF h.err # "" THEN [err |-> h.err, tokenString |-> GarbageToken, token |-> GarbageToken]
        ELSE IF v.err # "" THEN [err |-> v.err, tokenString |-> GarbageToken, token |-> GarbageToken]
        ELSE [err |-> "", tokenString |-> h.tokenString, token |-> v.token]

-----------------------------------------------------------------------------
(* Requests *)

Emails == {"a@x.com", "b@x.com"}

StrongPw == <<"A", "b", "c", "d", "e", "f", "1", "!">>
OtherPw == <<"Z", "y", "x", "w", "v", "u", "9", "~">>
WeakPw == <<"p", "w", "1">>
LongPw == StrongPw \o [i \in 1..(BcryptMaxLen - 7) |-> "a"]

BodyPlain == <<"h", "i">>
BodyBad == <<"a", " ", "K", "e", "r", "f", "u", "f", "f", "l", "e">>
BodyLong == [i \in 1..(MaxChirpLen + 1) |-> "a"]

\* tokens a client can put in a header: the ones the server signed, the same
\* claims under a foreign or a missing signature, and garbage
Forgeries(t) == {[t EXCEPT !.sig = "forged"], [t EXCEPT !.sig = "none"]}

PresentableTokens == issued \cup UNION {Forgeries(t) : t \in issued} \cup {GarbageToken}

\* Authorization headers, split at the spaces: "Bearer <t>", another scheme
\* word before the credential, "Bearer" alone, no header at all
BearerHeaders ==
    {<<"Bearer", t>> : t \in PresentableTokens}
        \cup {<<"Basic", t>> : t \in issued}
        \cup {<<"Bearer">>, <<"">>}

\* the ids a client can put in a URL: decimal numbers, and a word
UrlIds == {Itoa(i) : i \in 1..(MaxChirps + 1)} \cup {<<"x">>}

NoHeader == <<"">>

NoResp == [handler |-> "none", code |-> 0, header |-> NoHeader, arg |-> <<>>, out |-> <<>>]

Response(handler, code, header, arg, out) ==
    [handler |-> handler, code |-> code, header |-> header, arg |-> arg, out |-> out]

\* request bodies: the JSON object sent, or bytes that do not decode
ChirpRequests ==
    {[malformed |-> FALSE, Id |-> 0, Body |-> b, Author_id |-> 0] :
        b \in {BodyPlain, BodyBad, BodyLong}}
      \cup {[malformed |-> FALSE, Id |-> 9, Body |-> BodyPlain, Author_id |-> 9],
            [malformed |-> TRUE, Id |-> 0, Body |-> <<>>, Author_id |-> 0]}

UserRequests ==
    {[malformed |-> FALSE, Id |-> 0, Email |-> e, Password |-> p, Is_chirpy_red |-> FALSE] :
        e \in Emails, p \in {StrongPw, WeakPw}}
      \cup {[malformed |-> FALSE, Id |-> 9, Email |-> "b@x.com", Password |-> StrongPw,
             Is_chirpy_red |-> TRUE],
            [malformed |-> FALSE, Id |-> 0, Email |-> "b@x.com", Password |-> LongPw,
             Is_chirpy_red |-> FALSE],
            [malformed |-> TRUE, Id |-> 0, Email |-> "", Password |-> <<>>,
             Is_chirpy_red |-> FALSE]}

UpdateRequests ==
    {[malformed |-> FALSE, Id |-> 0, Email |-> e, Password |-> OtherPw, Is_chirpy_red |-> FALSE] :
        e \in Emails}
      \cup {[malformed |-> FALSE, Id |-> 9, Email |-> "a@x.com", Password |-> WeakPw,
             Is_chirpy_red |-> TRUE],
            [malformed |-> TRUE, Id |-> 0, Email |-> "", Password |-> <<>>,
             Is_chirpy_red |-> FALSE]}

LoginRequests ==
    {[malformed |-> FALSE, Email |-> e, Password |-> p] :
        e \in Emails, p \in {StrongPw, OtherPw}}
      \cup {[malformed |-> TRUE, Email |-> "", Password |-> <<>>]}

-----------------------------------------------------------------------------
(* The handlers of main.go, each as one step of a server that handles one  *)
(* request at a time                                                       *)

Serving == proc.alive

\* log.Fatal: the process exits, no response is written
Fatal(handler, header, arg) ==
    /\ proc' = [proc EXCEPT !.alive = FALSE]
    /\ resp' = Response(handler, 0, header, arg, "fatal")
    /\ UNCHANGED <<dbstruct, file, faults, issued, maxIdGiven, upgradeEvents>>

\* a response that leaves the store and the tokens as they are
Reply(handler, code, header, arg, out) ==
    /\ resp' = Response(handler, code, header, arg, out)
    /\ UNCHANGED <<dbstruct, file, faults, issued, proc, maxIdGiven, upgradeEvents>>

\* a store call that leaves db in memory and calls writeDB, whose error the
\* caller drops
Stored(db) ==
    /\ dbstruct' = db
    /\ \E d \in DiskOutcomes(faults) :
         /\ file' = writeDB(db, file, d).file
         /\ faults' = IF writeDB(db, file, d).err THEN faults - 1 ELSE faults
    /\ maxIdGiven' = SetMax({maxIdGiven} \cup DOMAIN db.Chirps)

\* the user.upgraded event a response acknowledges
AcknowledgedUpgrade(handler, arg) == IF handler = "polka" THEN {arg.User_id} ELSE {}

\* a response after such a store call
ReplyStored(handler, code, header, arg, out, db) ==
    /\ resp' = Response(handler, code, header, arg, out)
    /\ Stored(db)
    /\ upgradeEvents' = upgradeEvents \cup AcknowledgedUpgrade(handler, arg)
    /\ UNCHANGED <<issued, proc>>

\* POST /api/chirps
createChirp(header, body) ==
    /\ Serving
    /\ LET a == getJWTAndValidate(header, now)
           authorId == Atoi(a.token.Subject)
           params == [Id |-> body.Id, Body |-> body.Body, Author_id |-> authorId.val]
       IN  IF a.err # "" THEN Reply("createChirp", 401, header, body, "invalid token")
           ELSE IF body.malformed
                THEN Reply("createChirp", 500, header, body, "could not decode your chirp JSON")
           ELSE IF authorId.err
                THEN Reply("createChirp", 500, header, body, "invalid userid in JWT")
           ELSE IF ChirpTooLong(params)
                THEN Reply("createChirp", 400, header, body, "chirp is too long")
           ELSE /\ Cardinality(DOMAIN dbstruct.Chirps) < MaxChirps
                /\ ReplyStored("createChirp", 201, header, body,
                               CreateChirpRec(dbstruct, params),
                               CreateChirpMem(dbstruct, params))
    /\ UNCHANGED <<now, ticks, mux, thr, fh>>

createChirpHandler ==
    \E header \in BearerHeaders, body \in ChirpRequests : createChirp(header, body)

\* the query of GET /api/chirps: the values of "sort" and "author_id", ""
\* for a parameter that is not there
ChirpQueries ==
    {[sort |-> s, author_id |-> a] :
        s \in {"", "asc", "desc", "up"},
        a \in {<<>>, <<"x">>} \cup {Itoa(i) : i \in 1..(MaxUsers + 1)}}

\* a handler that does not look at author_id
authorRequested_Never(authorId) == FALSE

\* readChirpsHandler: "if authorId != """
authorRequested(authorId) == authorId # <<>>

\* GET /api/chirps
readChirps(query) ==
    /\ Serving
    /\ LET orderScheme == IF query.sort = "desc" THEN "desc" ELSE "asc"
           authorIdInt == Atoi(query.author_id)
       IN  IF authorRequested(query.author_id)
           THEN IF authorIdInt.err
                THEN Reply("readChirps", 404, NoHeader, query, "no user/author with that id")
                ELSE Reply("readChirps", 200, NoHeader, query,
                           GetChirpsByAuthor(dbstruct, authorIdInt.val, orderScheme))
           ELSE Reply("readChirps", 200, NoHeader, query, GetChirps(dbstruct, orderScheme))
    /\ UNCHANGED <<now, ticks, mux, thr, fh>>

readChirpsHandler == \E query \in ChirpQueries : readChirps(query)

\* the check deleteChirpHandler makes before it deletes: "if userId != chirpId"
deleteAllowed(db, userId, chirpId) == ~(userId # chirpId)

\* DELETE /api/chirps/{id}
deleteChirp(header, id) ==
    /\ Serving
    /\ LET a == getJWTAndValidate(header, now)
           userId == Atoi(a.token.Subject)
           chirpId == Atoi(id)
       IN  IF a.err # "" THEN Reply("deleteChirp", 401, header, id, "invalid token")
           ELSE IF userId.err THEN Reply("deleteChirp", 500, header, id, "atoi")
           ELSE IF chirpId.err THEN Reply("deleteChirp", 404, header, id, "atoi")
           ELSE IF ~deleteAllowed(dbstruct, userId.val, chirpId.val)
                THEN Reply("deleteChirp", 403, header, id,
                           "you are not the author of that chirp")
           ELSE IF ~DeleteFound(dbstruct, chirpId.val)
                THEN Reply("deleteChirp", 500, header, id, "chirp doesn't exist")
           ELSE ReplyStored("deleteChirp", 200, header, id, "null",
                            DeleteChirpMem(dbstruct, chirpId.val))
    /\ UNCHANGED <<now, ticks, mux, thr, fh>>

deleteChirpHandler ==
    \E header \in BearerHeaders, id \in UrlIds : deleteChirp(header, id)

\* POST /api/users
createNewUser(body) ==
    /\ Serving
    /\ LET params == [Id |-> body.Id, Email |-> body.Email, Password |-> body.Password,
                      Is_chirpy_red |-> body.Is_chirpy_red]
       IN  IF body.malformed
           THEN Reply("createUser", 500, NoHeader, body, "decoding json went wrong")
           ELSE IF \E user \in GetUsers(dbstruct) : params.Email = user.Email
                THEN Reply("createUser", 406, NoHeader, body, "email is already in use")
           ELSE IF ~isPasswordStrong(params.Password)
                THEN Reply("createUser", 406, NoHeader, body, "password is not strong")
           ELSE IF bcryptTooLong(params.Password)
                THEN Fatal("createUser", NoHeader, body)
           ELSE /\ Cardinality(DOMAIN dbstruct.Users) < MaxUsers
                /\ ReplyStored("createUser", 201, NoHeader, body,
                               [Id |-> NewId(dbstruct.Users), Email |-> params.Email],
                               CreateNewUserMem(dbstruct, params))
    /\ UNCHANGED <<now, ticks, mux, thr, fh>>

createNewUserHandler ==
    \E body \in UserRequests : createNewUser(body)

\* an access token with the lifetime of a refresh token
AccessTokenFor_RefreshLifetime(subject, n) ==
    SignedToken(AccessIssuer, subject, n, RefreshHours)

\* the tokens authenticateUserHandler signs for a user
AccessTokenFor(subject, n) == SignedToken(AccessIssuer, subject, n, AccessHours)

RefreshTokenFor(subject, n) == SignedToken(RefreshIssuer, subject, n, RefreshHours)

\* POST /api/login
authenticateUser(body) ==
    /\ Serving
    /\ LET matches == {user \in GetUsers(dbstruct) : user.Email = body.Email}
       IN  IF body.malformed
           THEN Reply("login", 500, NoHeader, body, "error decoding your json")
           ELSE IF matches = {}
           THEN Reply("login", 500, NoHeader, body, "no user with that email found in db")
           ELSE \E foundUser \in matches :
                  IF ~bcryptCompareHashAndPassword(foundUser.Password, body.Password)
                  THEN Reply("login", 401, NoHeader, body, "passwords don't match")
                  ELSE LET accessToken == AccessTokenFor(Itoa(foundUser.Id), now)
                           refreshToken == RefreshTokenFor(Itoa(foundUser.Id), now)
                       IN  /\ Cardinality(issued \cup {accessToken, refreshToken}) <= MaxTokens
                           /\ issued' = issued \cup {accessToken, refreshToken}
                           /\ resp' = Response("login", 200, NoHeader, body,
                                               [Id |-> foundUser.Id,
                                                Email |-> foundUser.Email,
                                                Is_chirpy_red |-> foundUser.Is_chirpy_red,
                                                Token |-> accessToken,
                                                Refresh_token |-> refreshToken])
                           /\ UNCHANGED <<dbstruct, file, faults, proc, maxIdGiven, upgradeEvents>>
    /\ UNCHANGED <<now, ticks, mux, thr, fh>>

authenticateUserHandler == \E body \in LoginRequests : authenticateUser(body)

\* PUT /api/users
updateUser(header, body) ==
    /\ Serving
    /\ LET a == getJWTAndValidate(header, now)
           userIdInt == Atoi(a.token.Subject).val
           found == GetUser(dbstruct, userIdInt)
           foundUser == [found.val EXCEPT !.Email = body.Email,
                                          !.Password = body.Password]
       IN  IF a.err # "" THEN Reply("updateUser", 500, header, body, a.err)
           ELSE IF a.token.Issuer # AccessIssuer
                THEN Reply("updateUser", 401, header, body, "not access token")
           ELSE IF found.err
                THEN Reply("updateUser", 500, header, body, "could not find user")
           ELSE IF body.malformed
                THEN Reply("updateUser", 500, header, body, "error decoding given body")
           ELSE IF bcryptTooLong(foundUser.Password)
                THEN Fatal("updateUser", header, body)
           ELSE ReplyStored("updateUser", 200, header, body,
                            [Id |-> foundUser.Id, Email |-> foundUser.Email],
                            UpdateUserMem(dbstruct, foundUser))
    /\ UNCHANGED <<now, ticks, mux, thr, fh>>

updateUserHandler ==
    \E header \in BearerHeaders, body \in UpdateRequests : updateUser(header, body)

\* POST /api/refresh
refreshToken(header) ==
    /\ Serving
    /\ LET a == getJWTAndValidate(header, now)
           newAccessToken == AccessTokenFor(a.token.Subject, now)
       IN  IF a.err # "" THEN Reply("refresh", 500, header, <<>>, a.err)
           ELSE IF a.token.Issuer # RefreshIssuer
                THEN Reply("refresh", 401, header, <<>>, "not refresh token")
           ELSE IF ~CheckRefreshTokenIsValid(dbstruct, a.tokenString)
                THEN Reply("refresh", 401, header, <<>>, "refresh token has been revoked")
           ELSE /\ Cardinality(issued \cup {newAccessToken}) <= MaxTokens
                /\ issued' = issued \cup {newAccessToken}
                /\ resp' = Response("refresh", 200, header, <<>>, newAccessToken)
                /\ UNCHANGED <<dbstruct, file, faults, proc, maxIdGiven, upgradeEvents>>
    /\ UNCHANGED <<now, ticks, mux, thr, fh>>

refreshTokenHandler ==
    \E header \in BearerHeaders : refreshToken(header)

\* POST /api/revoke
revokeRefreshToken(header) ==
    /\ Serving
    /\ LET a == getJWTAndValidate(header, now)
           revoked == RevokeRefreshTokenMem(dbstruct, a.tokenString)
       IN  IF a.err # "" THEN Reply("revoke", 500, header, <<>>, a.err)
           ELSE IF a.token.Issuer # RefreshIssuer
                THEN Reply("revoke", 401, header, <<>>, "not refresh token")
           ELSE IF CheckRefreshTokenIsValid(revoked, a.tokenString)
                THEN /\ proc' = [proc EXCEPT !.alive = FALSE]
                     /\ resp' = Response("revoke", 0, header, <<>>, "fatal")
                     /\ Stored(revoked)
                     /\ UNCHANGED <<issued, upgradeEvents>>
           ELSE ReplyStored("revoke", 200, header, <<>>, "null", revoked)
    /\ UNCHANGED <<now, ticks, mux, thr, fh>>

revokeRefreshTokenHandler ==
    \E header \in BearerHeaders : revokeRefreshToken(header)

PolkaApiSecret == "polka-key"

PolkaHeaders ==
    {<<"ApiKey", PolkaApiSecret>>, <<"ApiKey", "wrong-key">>,
     <<"Bearer", PolkaApiSecret>>, <<"ApiKey">>, <<"">>}

PolkaRequests ==
    {[malformed |-> FALSE, Event |-> ev, User_id |-> id] :
        ev \in {"user.upgraded", "user.payment_failed"}, id \in 1..(MaxUsers + 1)}
      \cup {[malformed |-> TRUE, Event |-> "", User_id |-> 0]}

\* a handler that upgrades on every event
isUpgradeEvent_Any(event) == TRUE

\* "if params.Event != "user.upgraded" { respondWithJSON(w, 200, nil); return }"
isUpgradeEvent(event) == event = "user.upgraded"

\* POST /api/polka/webhooks.  respondWithError(w, 401, nil) calls Error() on a
\* nil error: the handler panics, net/http recovers and drops the connection.
polkaWebhooks(header, body) ==
    /\ Serving
    /\ LET k == getAuthTokenFromHeader(header)
           apiKeyString == header[2]
       IN    IF k.err # "" THEN Reply("polka", 401, header, body, k.err)
             ELSE IF apiKeyString # PolkaApiSecret
                  THEN Reply("polka", 0, header, body, "panic")
             ELSE IF body.malformed
                  THEN Reply("polka", 500, header, body, "decoding json went wrong")
             ELSE IF ~isUpgradeEvent(body.Event)
                  THEN Reply("polka", 200, header, body, "null")
             ELSE IF ~UpgradeFound(dbstruct, body.User_id)
                  THEN Reply("polka", 404, header, body, "user not found")
             ELSE ReplyStored("polka", 200, header, body, "null",
                              UpgradeUserToChirpyRedMem(dbstruct, body.User_id))
    /\ UNCHANGED <<now, ticks, mux, thr, fh>>

polkaWebhooksHandler ==
    \E header \in PolkaHeaders, body \in PolkaRequests : polkaWebhooks(header, body)

\* time passes: one access lifetime, or one refresh lifetime
Tick ==
    /\ ticks < MaxTicks
    /\ \E d \in {AccessHours, RefreshHours} : now' = now + d
    /\ ticks' = ticks + 1
    /\ resp' = [NoResp EXCEPT !.handler = "tick"]
    /\ UNCHANGED <<dbstruct, file, faults, proc, issued, maxIdGiven, upgradeEvents, mux, thr, fh>>

-----------------------------------------------------------------------------
(* The server right after main has called NewDB on a new database.json *)

Threads == {1, 2}

IdleThread == [op |-> "idle", pc |-> "idle", arg |-> [Id |-> 0], ret |-> <<>>]

ClosedHandle == [open |-> FALSE, buf |-> EncodeJSON(EmptyDBStructure)]

Init ==
    /\ dbstruct = loadDB(EmptyFile)
    /\ file = EmptyFile
    /\ faults = 0
    /\ proc = [epoch |-> 1, alive |-> TRUE]
    /\ now = 0
    /\ ticks = 0
    /\ issued = {}
    /\ resp = NoResp
    /\ maxIdGiven = 0
    /\ upgradeEvents = {}
    /\ mux = [writer |-> 0, readers |-> {}]
    /\ thr = [t \in Threads |-> IdleThread]
    /\ fh = [t \in Threads |-> ClosedHandle]

Next ==
    \/ createChirpHandler
    \/ deleteChirpHandler
    \/ createNewUserHandler
    \/ authenticateUserHandler
    \/ updateUserHandler
    \/ refreshTokenHandler
    \/ revokeRefreshTokenHandler
    \/ polkaWebhooksHandler
    \/ Tick

Spec == Init /\ [][Next]_vars

\* The server as the clients of one feature drive it: registration and login,
\* and with them the chirp endpoints, ...
NextChirps ==
    \/ createNewUserHandler
    \/ authenticateUserHandler
    \/ createChirpHandler
    \/ deleteChirpHandler

SpecChirps == Init /\ [][NextChirps]_vars

\* ... the token endpoints while time passes, ...
NextTokens ==
    \/ createNewUserHandler
    \/ authenticateUserHandler
    \/ refreshTokenHandler
    \/ revokeRefreshTokenHandler
    \/ Tick

SpecTokens == Init /\ [][NextTokens]_vars

\* ... the account endpoints.
NextUsers ==
    \/ createNewUserHandler
    \/ authenticateUserHandler
    \/ updateUserHandler
    \/ polkaWebhooksHandler

SpecUsers == Init /\ [][NextUsers]_vars

\* ... and the endpoints that look at the role of the token
NextRoles ==
    \/ createNewUserHandler
    \/ authenticateUserHandler
    \/ updateUserHandler
    \/ refreshTokenHandler
    \/ revokeRefreshTokenHandler

SpecRoles == Init /\ [][NextRoles]_vars

\* ... and one client with its tokens as time passes: the client registers,
\* logs in, and sends the tokens it was given to the endpoints that take one
AgingUser ==
    [malformed |-> FALSE, Id |-> 0, Email |-> "a@x.com", Password |-> StrongPw,
     Is_chirpy_red |-> FALSE]

AgingLogin == [malformed |-> FALSE, Email |-> "a@x.com", Password |-> StrongPw]

AgingChirp == [malformed |-> FALSE, Id |-> 0, Body |-> BodyPlain, Author_id |-> 0]

AgingHeaders == {<<"Bearer", t>> : t \in issued}

agingRegister == createNewUser(AgingUser)

agingLogin == authenticateUser(AgingLogin)

agingCreateChirp == \E header \in AgingHeaders : createChirp(header, AgingChirp)

agingDeleteChirp == \E header \in AgingHeaders : deleteChirp(header, Itoa(1))

agingUpdateUser == \E header \in AgingHeaders : updateUser(header, AgingUser)

agingRefresh == \E header \in AgingHeaders : refreshToken(header)

agingRevoke == \E header \in AgingHeaders : revokeRefreshToken(header)

NextAging ==
    \/ agingRegister
    \/ agingLogin
    \/ agingCreateChirp
    \/ agingDeleteChirp
    \/ agingUpdateUser
    \/ agingRefresh
    \/ agingRevoke
    \/ Tick

SpecAging == Init /\ [][NextAging]_vars


-----------------------------------------------------------------------------
(* The store as one goroutine calls it, on a disk that can fail writes, in  *)
(* a process that can be stopped and started again: each call is one step, *)
(* from taking the lock to returning                                       *)

StoreTokens == {RefreshTokenFor(Itoa(u), 0) : u \in 1..2}

StoreNewUsers ==
    {[Id |-> 0, Email |-> "a@x.com", Password |-> p, Is_chirpy_red |-> FALSE] :
        p \in {StrongPw, LongPw}}

StoreUserUpdates ==
    {[Id |-> i, Email |-> "b@x.com", Password |-> OtherPw, Is_chirpy_red |-> FALSE] :
        i \in 1..MaxUsers}

StoreNewChirps ==
    {[Id |-> 0, Body |-> b, Author_id |-> 1] : b \in {BodyBad, BodyLong}}

\* a call that returned: code 0 is a nil error (or no error result), 1 an error
Returned(op, code, arg, out) == Reply(op, code, NoHeader, arg, out)

ReturnedStored(op, code, arg, out, db) == ReplyStored(op, code, NoHeader, arg, out, db)

CallCreateNewUser ==
    /\ Serving
    /\ \E user \in StoreNewUsers :
         IF bcryptTooLong(user.Password) THEN Fatal("CreateNewUser", NoHeader, user)
         ELSE /\ Cardinality(DOMAIN dbstruct.Users) < MaxUsers
              /\ ReturnedStored("CreateNewUser", 0, user, CreateNewUserRec(dbstruct, user),
                                CreateNewUserMem(dbstruct, user))
    /\ UNCHANGED <<now, ticks, mux, thr, fh>>

CallUpdateUser ==
    /\ Serving
    /\ \E user \in StoreUserUpdates :
         IF bcryptTooLong(user.Password) THEN Fatal("UpdateUser", NoHeader, user)
         ELSE ReturnedStored("UpdateUser", 0, user, UpdateUserRec(user),
                             UpdateUserMem(dbstruct, user))
    /\ UNCHANGED <<now, ticks, mux, thr, fh>>

CallUpgradeUserToChirpyRed ==
    /\ Serving
    /\ \E userId \in 1..MaxUsers :
         IF UpgradeFound(dbstruct, userId)
         THEN ReturnedStored("UpgradeUserToChirpyRed", 0, userId, "nil",
                             UpgradeUserToChirpyRedMem(dbstruct, userId))
         ELSE Returned("UpgradeUserToChirpyRed", 1, userId, "user not found")
    /\ UNCHANGED <<now, ticks, mux, thr, fh>>

StoreCreateChirp(newChirp) ==
    /\ Serving
    /\ IF ChirpTooLong(newChirp)
       THEN Returned("CreateChirp", 1, newChirp, "chirp is too long")
       ELSE /\ Cardinality(DOMAIN dbstruct.Chirps) < MaxChirps
            /\ ReturnedStored("CreateChirp", 0, newChirp, CreateChirpRec(dbstruct, newChirp),
                              CreateChirpMem(dbstruct, newChirp))
    /\ UNCHANGED <<now, ticks, mux, thr, fh>>

CallCreateChirp == \E newChirp \in StoreNewChirps : StoreCreateChirp(newChirp)

CallDeleteChirp ==
    /\ Serving
    /\ \E chirpId \in 1..MaxChirps :
         IF DeleteFound(dbstruct, chirpId)
         THEN ReturnedStored("DeleteChirp", 0, chirpId, "nil",
                             DeleteChirpMem(dbstruct, chirpId))
         ELSE Returned("DeleteChirp", 1, chirpId, "chirp doesn't exist")
    /\ UNCHANGED <<now, ticks, mux, thr, fh>>

CallRevokeRefreshToken ==
    /\ Serving
    /\ \E token \in StoreTokens :
         ReturnedStored("RevokeRefreshToken", 0, token, "",
                        RevokeRefreshTokenMem(dbstruct, token))
    /\ UNCHANGED <<now, ticks, mux, thr, fh>>

CallCheckRefreshTokenIsValid ==
    /\ Serving
    /\ \E token \in StoreTokens :
         Returned("CheckRefreshTokenIsValid", 0, token,
                  CheckRefreshTokenIsValid(dbstruct, token))
    /\ UNCHANGED <<now, ticks, mux, thr, fh>>

CallGetChirp ==
    /\ Serving
    /\ \E id \in 1..MaxChirps :
         Returned("GetChirp", IF GetChirp(dbstruct, id).err THEN 1 ELSE 0, id,
                  GetChirp(dbstruct, id).val)
    /\ UNCHANGED <<now, ticks, mux, thr, fh>>

CallGetUser ==
    /\ Serving
    /\ \E id \in 1..MaxUsers :
         Returned("GetUser", IF GetUser(dbstruct, id).err THEN 1 ELSE 0, id,
                  GetUser(dbstruct, id).val)
    /\ UNCHANGED <<now, ticks, mux, thr, fh>>

\* the process ends (it was stopped, or log.Fatal ended it) and main runs
\* again: NewDB opens the file, allocates empty maps and calls loadDB
NewDB ==
    /\ proc.epoch < MaxEpochs
    /\ proc' = [epoch |-> proc.epoch + 1, alive |-> TRUE]
    /\ file' = OpenFileCreate(file)
    /\ dbstruct' = loadDB(OpenFileCreate(file))
    /\ resp' = Response("NewDB", 0, NoHeader, <<>>, "")
    /\ UNCHANGED <<faults, now, ticks, issued, maxIdGiven, upgradeEvents, mux, thr, fh>>

InitStore ==
    /\ dbstruct = loadDB(EmptyFile)
    /\ file = EmptyFile
    /\ faults = MaxFaults
    /\ proc = [epoch |-> 1, alive |-> TRUE]
    /\ now = 0
    /\ ticks = 0
    /\ issued = {}
    /\ resp = NoResp
    /\ maxIdGiven = 0
    /\ upgradeEvents = {}
    /\ mux = [writer |-> 0, readers |-> {}]
    /\ thr = [t \in Threads |-> IdleThread]
    /\ fh = [t \in Threads |-> ClosedHandle]

NextStore ==
    \/ CallCreateNewUser
    \/ CallUpdateUser
    \/ CallUpgradeUserToChirpyRed
    \/ CallCreateChirp
    \/ CallDeleteChirp
    \/ CallRevokeRefreshToken
    \/ CallCheckRefreshTokenIsValid
    \/ CallGetChirp
    \/ CallGetUser
    \/ NewDB

SpecStore == InitStore /\ [][NextStore]_vars

\* The chirps of the store, with bodies at the length limit and around the
\* words the content filter looks for
Filler(n) == [i \in 1..n |-> "a"]

BodyEdge == Filler(MaxChirpLen - 7) \o <<" ", "f", "o", "r", "n", "a", "x">>

BodyLongBad == Filler(MaxChirpLen - 5) \o <<" ">> \o ListOfBadWords[1]

BodyPunct == <<"S", "h", "a", "r", "b", "e", "r", "t", "!", " ", "*", "*", "*", "*">>

ChirpStoreBodies == {BodyPlain, BodyBad, BodyPunct, BodyEdge, BodyLong, BodyLongBad}

ChirpStoreChirps == {[Id |-> 0, Body |-> b, Author_id |-> 1] : b \in ChirpStoreBodies}

CallCreateChirpOf == \E newChirp \in ChirpStoreChirps : StoreCreateChirp(newChirp)

NextChirpStore ==
    \/ CallCreateChirpOf
    \/ CallDeleteChirp
    \/ CallGetChirp
    \/ NewDB

SpecChirpStore == InitStore /\ [][NextChirpStore]_vars

\* The chirps of two authors and the listings of them
ListingChirps == {[Id |-> 0, Body |-> BodyPlain, Author_id |-> a] : a \in 1..MaxUsers}

CallCreateChirpBy == \E newChirp \in ListingChirps : StoreCreateChirp(newChirp)

NextListing ==
    \/ CallCreateChirpBy
    \/ CallDeleteChirp
    \/ readChirpsHandler

SpecListing == Init /\ [][NextListing]_vars

\* The store from its construction: main has not run yet, and the path names
\* no file or an empty one
InitNewDB ==
    /\ dbstruct = EmptyDBStructure
    /\ file \in {AbsentFile, EmptyFile}
    /\ faults = MaxFaults
    /\ proc = [epoch |-> 0, alive |-> FALSE]
    /\ now = 0
    /\ ticks = 0
    /\ issued = {}
    /\ resp = NoResp
    /\ maxIdGiven = 0
    /\ upgradeEvents = {}
    /\ mux = [writer |-> 0, readers |-> {}]
    /\ thr = [t \in Threads |-> IdleThread]
    /\ fh = [t \in Threads |-> ClosedHandle]

\* RevokeRefreshToken called with a token that is in the map already
CallRevokeRefreshTokenAgain ==
    /\ Serving
    /\ \E token \in StoreTokens \cap DOMAIN dbstruct.RevokedRefreshTokens :
         ReturnedStored("RevokeRefreshToken again", 0, token, "",
                        RevokeRefreshTokenMem(dbstruct, token))
    /\ UNCHANGED <<now, ticks, mux, thr, fh>>

NextNewDB ==
    \/ NewDB
    \/ CallCreateNewUser
    \/ CallCreateChirp
    \/ CallRevokeRefreshToken
    \/ CallRevokeRefreshTokenAgain
    \/ CallCheckRefreshTokenIsValid

SpecNewDB == InitNewDB /\ [][NextNewDB]_vars

-----------------------------------------------------------------------------
(* The content filter on its own: censorChirp applied to a body, and again *)
(* to what it returned                                                     *)

FilterWords ==
    {ListOfBadWords[1],
     <<"K", "e", "r", "f", "u", "f", "f", "l", "e">>,
     <<"S", "H", "A", "R", "B", "E", "R", "T">>,
     ListOfBadWords[3],
     ListOfBadWords[1] \o <<"!">>,
     BodyPlain,
     BadWordReplacement,
     <<>>}

\* a space, a tab
FilterSeparators == {" ", "\t"}

MaxWords == 3

RECURSIVE FilterBodiesOf(_)
FilterBodiesOf(n) ==
    IF n = 1 THEN FilterWords
    ELSE {b \o <<s>> \o w : b \in FilterBodiesOf(n - 1), s \in FilterSeparators,
                             w \in FilterWords}

FilterBodies == UNION {FilterBodiesOf(n) : n \in 1..MaxWords}

InitFilter ==
    /\ dbstruct = loadDB(EmptyFile)
    /\ file = EmptyFile
    /\ faults = 0
    /\ proc = [epoch |-> 1, alive |-> TRUE]
    /\ now = 0
    /\ ticks = 0
    /\ issued = {}
    /\ resp \in {Response("body", 0, NoHeader, b, <<>>) : b \in FilterBodies}
    /\ maxIdGiven = 0
    /\ upgradeEvents = {}
    /\ mux = [writer |-> 0, readers |-> {}]
    /\ thr = [t \in Threads |-> IdleThread]
    /\ fh = [t \in Threads |-> ClosedHandle]

\* cleanedChirpBody := censorChirp(listOfBadWords, newChirp.Body, badWordReplacement)
CallCensorChirp ==
    /\ resp.handler = "body"
    /\ resp' = Response("censorChirp", 0, NoHeader, resp.arg,
                        censorChirp(ListOfBadWords, resp.arg, BadWordReplacement))
    /\ UNCHANGED <<dbstruct, file, faults, proc, now, ticks, issued, maxIdGiven,
                   upgradeEvents, mux, thr, fh>>

\* the body censorChirp returned is given to censorChirp
CallCensorChirpAgain ==
    /\ resp.handler = "censorChirp"
    /\ resp' = Response("censorChirp again", 0, NoHeader, resp.out,
                        censorChirp(ListOfBadWords, resp.out, BadWordReplacement))
    /\ UNCHANGED <<dbstruct, file, faults, proc, now, ticks, issued, maxIdGiven,
                   upgradeEvents, mux, thr, fh>>

NextFilter ==
    \/ CallCensorChirp
    \/ CallCensorChirpAgain

SpecFilter == InitFilter /\ [][NextFilter]_vars

-----------------------------------------------------------------------------
(* The store as concurrent goroutines call it.  A call is a sequence of     *)
(* steps: taking the lock (where the code takes one), the access to the    *)
(* maps, and writeDB's OpenFile (which truncates), Encode (which reads the *)
(* maps into a buffer) and write of the buffer, then the deferred unlock.  *)

LockedWriters == {"CreateNewUser", "UpdateUser", "CreateChirp", "RevokeRefreshToken"}

UnlockedWriters == {"UpgradeUserToChirpyRed", "DeleteChirp"}

Readers == {"CheckRefreshTokenIsValid", "GetChirp"}

ConcOps == LockedWriters \cup UnlockedWriters \cup Readers

\* the arguments the goroutines pass
ConcArgs(op) ==
    CASE op = "CreateNewUser" ->
           {[Id |-> 0, Email |-> "a@x.com", Password |-> StrongPw, Is_chirpy_red |-> FALSE]}
      [] op = "UpdateUser" ->
           {[Id |-> 1, Email |-> "b@x.com", Password |-> OtherPw, Is_chirpy_red |-> FALSE]}
      [] op = "CreateChirp" -> {[Id |-> 0, Body |-> BodyPlain, Author_id |-> 1]}
      [] op \in {"RevokeRefreshToken", "CheckRefreshTokenIsValid"} ->
           {RefreshTokenFor(Itoa(1), 0)}
      [] OTHER -> {[Id |-> 1]}

FirstPc(op) ==
    IF op \in LockedWriters THEN "lock"
    ELSE IF op \in Readers THEN "rlock"
    ELSE "mem"

\* where a writer goes when writeDB has returned
AfterWriteDB(op) == IF op \in LockedWriters THEN "unlock" ELSE "done"

Pending(op) == {t \in Threads : thr[t].op = op /\ thr[t].pc \in {"lock", "mem"}}

\* a goroutine enters a store call
Invoke(t) ==
    /\ Serving
    /\ thr[t].pc \in {"idle", "done"}
    /\ \E op \in ConcOps :
         /\ op = "CreateNewUser"
              => Cardinality(DOMAIN dbstruct.Users) + Cardinality(Pending(op)) < MaxConcUsers
         /\ op = "CreateChirp"
              => Cardinality(DOMAIN dbstruct.Chirps) + Cardinality(Pending(op)) < MaxConcChirps
         /\ \E arg \in ConcArgs(op) :
              thr' = [thr EXCEPT ![t] = [op |-> op, pc |-> FirstPc(op), arg |-> arg,
                                        ret |-> <<>>]]
    /\ UNCHANGED <<dbstruct, file, faults, proc, now, ticks, issued, resp, maxIdGiven, upgradeEvents, mux, fh>>

\* db.mux.Lock()
Lock(t) ==
    /\ Serving
    /\ thr[t].pc = "lock"
    /\ mux.writer = 0
    /\ mux.readers = {}
    /\ mux' = [mux EXCEPT !.writer = t]
    /\ thr' = [thr EXCEPT ![t].pc = "mem"]
    /\ UNCHANGED <<dbstruct, file, faults, proc, now, ticks, issued, resp, maxIdGiven, upgradeEvents, fh>>

\* db.mux.RLock()
RLock(t) ==
    /\ Serving
    /\ thr[t].pc = "rlock"
    /\ mux.writer = 0
    /\ mux' = [mux EXCEPT !.readers = @ \cup {t}]
    /\ thr' = [thr EXCEPT ![t].pc = "read"]
    /\ UNCHANGED <<dbstruct, file, faults, proc, now, ticks, issued, resp, maxIdGiven, upgradeEvents, fh>>

\* the part of a writer between taking the lock and writeDB
Mem(t) ==
    /\ Serving
    /\ thr[t].pc = "mem"
    /\ LET op == thr[t].op
           arg == thr[t].arg
           Go(db, ret) ==
               /\ dbstruct' = db
               /\ thr' = [thr EXCEPT ![t].pc = "open", ![t].ret = ret]
               /\ maxIdGiven' = SetMax({maxIdGiven} \cup DOMAIN db.Chirps)
               /\ UNCHANGED proc
           Fail(ret) ==
               /\ thr' = [thr EXCEPT ![t].pc = AfterWriteDB(op), ![t].ret = ret]
               /\ UNCHANGED <<dbstruct, proc, maxIdGiven, upgradeEvents>>
           Die ==
               /\ proc' = [proc EXCEPT !.alive = FALSE]
               /\ UNCHANGED <<dbstruct, thr, maxIdGiven, upgradeEvents>>
       IN  CASE op = "CreateNewUser" ->
                  IF bcryptTooLong(arg.Password) THEN Die
                  ELSE Go(CreateNewUserMem(dbstruct, arg), CreateNewUserRec(dbstruct, arg))
             [] op = "UpdateUser" ->
                  IF bcryptTooLong(arg.Password) THEN Die
                  ELSE Go(UpdateUserMem(dbstruct, arg), UpdateUserRec(arg))
             [] op = "CreateChirp" ->
                  IF ChirpTooLong(arg) THEN Fail("chirp is too long")
                  ELSE Go(CreateChirpMem(dbstruct, arg), CreateChirpRec(dbstruct, arg))
             [] op = "RevokeRefreshToken" ->
                  Go(RevokeRefreshTokenMem(dbstruct, arg), "")
             [] op = "UpgradeUserToChirpyRed" ->
                  IF UpgradeFound(dbstruct, arg.Id)
                  THEN Go(UpgradeUserToChirpyRedMem(dbstruct, arg.Id), "nil")
                  ELSE Fail("user not found")
             [] op = "DeleteChirp" ->
                  IF DeleteFound(dbstruct, arg.Id)
                  THEN Go(DeleteChirpMem(dbstruct, arg.Id), "nil")
                  ELSE Fail("chirp doesn't exist")
    /\ UNCHANGED <<file, faults, now, ticks, issued, resp, upgradeEvents, mux, fh>>

\* writeDB: os.OpenFile(db.path, O_WRONLY|O_TRUNC)
OpenFile(t) ==
    /\ Serving
    /\ thr[t].pc = "open"
    /\ \E d \in DiskOutcomes(faults) \ {"writefail"} :
         IF d = "openfail"
         THEN /\ faults' = faults - 1
              /\ thr' = [thr EXCEPT ![t].pc = AfterWriteDB(thr[t].op)]
              /\ UNCHANGED <<file, fh>>
         ELSE /\ file' = EmptyFile
              /\ fh' = [fh EXCEPT ![t].open = TRUE]
              /\ thr' = [thr EXCEPT ![t].pc = "encode"]
              /\ UNCHANGED faults
    /\ UNCHANGED <<dbstruct, proc, now, ticks, issued, resp, maxIdGiven, upgradeEvents, mux>>

\* writeDB: encoder.Encode marshals db.dbstruct into a buffer ...
Encode(t) ==
    /\ Serving
    /\ thr[t].pc = "encode"
    /\ fh' = [fh EXCEPT ![t].buf = EncodeJSON(dbstruct)]
    /\ thr' = [thr EXCEPT ![t].pc = "write"]
    /\ UNCHANGED <<dbstruct, file, faults, proc, now, ticks, issued, resp, maxIdGiven, upgradeEvents, mux>>

\* ... and writes the buffer at the start of the file; the file is closed
WriteFile(t) ==
    /\ Serving
    /\ thr[t].pc = "write"
    /\ \E d \in DiskOutcomes(faults) \ {"openfail"} :
         IF d = "writefail"
         THEN faults' = faults - 1 /\ UNCHANGED file
         ELSE file' = JSONFile(fh[t].buf) /\ UNCHANGED faults
    /\ fh' = [fh EXCEPT ![t] = ClosedHandle]
    /\ thr' = [thr EXCEPT ![t].pc = AfterWriteDB(thr[t].op)]
    /\ UNCHANGED <<dbstruct, proc, now, ticks, issued, resp, maxIdGiven, upgradeEvents, mux>>

\* defer db.mux.Unlock()
Unlock(t) ==
    /\ Serving
    /\ thr[t].pc = "unlock"
    /\ mux' = [mux EXCEPT !.writer = 0]
    /\ thr' = [thr EXCEPT ![t].pc = "done"]
    /\ UNCHANGED <<dbstruct, file, faults, proc, now, ticks, issued, resp, maxIdGiven, upgradeEvents, fh>>

\* the map lookup of a reader
Read(t) ==
    /\ Serving
    /\ thr[t].pc = "read"
    /\ LET op == thr[t].op
           arg == thr[t].arg
           ret == CASE op = "CheckRefreshTokenIsValid" -> CheckRefreshTokenIsValid(dbstruct, arg)
                    [] op = "GetChirp" -> GetChirp(dbstruct, arg.Id)
       IN  thr' = [thr EXCEPT ![t].pc = "runlock", ![t].ret = ret]
    /\ UNCHANGED <<dbstruct, file, faults, proc, now, ticks, issued, resp, maxIdGiven, upgradeEvents, mux, fh>>

\* defer db.mux.RUnlock()
RUnlock(t) ==
    /\ Serving
    /\ thr[t].pc = "runlock"
    /\ mux' = [mux EXCEPT !.readers = @ \ {t}]
    /\ thr' = [thr EXCEPT ![t].pc = "done"]
    /\ UNCHANGED <<dbstruct, file, faults, proc, now, ticks, issued, resp, maxIdGiven, upgradeEvents, fh>>

\* about to read or write the maps
AtMaps(t) == thr[t].pc \in {"mem", "read", "encode"}

\* about to write the maps
AtMapWrite(t) == thr[t].pc = "mem"

\* Two goroutines at the maps, one of them to write: a data race.  Besides
\* either order of the two accesses, the Go runtime may detect it and end the
\* process ("fatal error: concurrent map writes").
ConcurrentMapAccessFatal ==
    /\ Serving
    /\ \E t1, t2 \in Threads :
         /\ t1 # t2
         /\ AtMapWrite(t1)
         /\ AtMaps(t2)
    /\ proc' = [proc EXCEPT !.alive = FALSE]
    /\ UNCHANGED <<dbstruct, file, faults, now, ticks, issued, resp, maxIdGiven, upgradeEvents, mux, thr, fh>>

NextConc ==
    \/ \E t \in Threads :
         \/ Invoke(t)
         \/ Lock(t)
         \/ RLock(t)
         \/ Mem(t)
         \/ OpenFile(t)
         \/ Encode(t)
         \/ WriteFile(t)
         \/ Unlock(t)
         \/ Read(t)
         \/ RUnlock(t)
    \/ ConcurrentMapAccessFatal

SpecConc == Init /\ [][NextConc]_vars

\* The scheduling: the Go scheduler runs every runnable goroutine, so a step
\* that stays possible is taken; sync.RWMutex lets no caller starve (a
\* blocked Lock keeps new readers out, Unlock lets the waiting readers in),
\* so a lock that can be taken again and again is taken.  Nothing makes a
\* client call the store, and nothing makes the runtime detect a race.
\* what every step of a call changes: where the goroutines are
sched == [t \in Threads |-> thr[t].pc]

FairConc ==
    \A t \in Threads :
        /\ SF_sched(Lock(t))
        /\ SF_sched(RLock(t))
        /\ WF_sched(Mem(t))
        /\ WF_sched(OpenFile(t))
        /\ WF_sched(Encode(t))
        /\ WF_sched(WriteFile(t))
        /\ WF_sched(Unlock(t))
        /\ WF_sched(Read(t))
        /\ WF_sched(RUnlock(t))

SpecConcFair == Init /\ [][NextConc]_vars /\ FairConc

-----------------------------------------------------------------------------
(* The account handlers as net/http runs them: one goroutine per request,  *)
(* so that the store calls of two requests interleave.  A handler that     *)
(* makes one store call is one step; POST /api/users (GetUsers, then       *)
(* CreateNewUser) and PUT /api/users (GetUser, then UpdateUser) are two.   *)

ServedRequests == {"createUser", "updateUser"}

\* the requests the goroutines serve: [header, body]
ServedInputs(op) ==
    IF op = "createUser"
    THEN {[header |-> NoHeader,
           body |-> [malformed |-> FALSE, Id |-> 0, Email |-> "a@x.com",
                     Password |-> StrongPw, Is_chirpy_red |-> FALSE]],
          [header |-> NoHeader,
           body |-> [malformed |-> FALSE, Id |-> 9, Email |-> "b@x.com",
                     Password |-> StrongPw, Is_chirpy_red |-> TRUE]]}
    ELSE {[header |-> <<"Bearer", tok>>,
           body |-> [malformed |-> FALSE, Id |-> 0, Email |-> "a@x.com",
                     Password |-> OtherPw, Is_chirpy_red |-> FALSE]] :
             tok \in {k \in issued : k.Issuer = AccessIssuer}}

\* the server starts a goroutine for a request
Accept(t) ==
    /\ Serving
    /\ thr[t].pc \in {"idle", "done"}
    /\ \E op \in ServedRequests :
         \E in \in ServedInputs(op) :
            thr' = [thr EXCEPT ![t] = [op |-> op, pc |-> "read", arg |-> in, ret |-> <<>>]]
    /\ UNCHANGED <<dbstruct, file, faults, proc, now, ticks, issued, resp, maxIdGiven, upgradeEvents, mux, fh>>

\* the handler goes on to its second store call
GoOn(t, pc, ret) ==
    /\ thr' = [thr EXCEPT ![t].pc = pc, ![t].ret = ret]
    /\ UNCHANGED <<dbstruct, file, faults, proc, issued, resp, maxIdGiven, upgradeEvents>>

\* the handler has answered
Answered(t) == thr' = [thr EXCEPT ![t] = [IdleThread EXCEPT !.pc = "done"]]

\* createNewUserHandler, from decoding the body to the password check:
\* GetUsers and the scan for the email
createNewUserCheck(t) ==
    /\ Serving
    /\ thr[t].op = "createUser"
    /\ thr[t].pc = "read"
    /\ LET body == thr[t].arg.body
       IN  IF body.malformed
           THEN Reply("createUser", 500, NoHeader, body, "decoding json went wrong")
                  /\ Answered(t)
           ELSE IF \E user \in GetUsers(dbstruct) : body.Email = user.Email
                THEN Reply("createUser", 406, NoHeader, body, "email is already in use")
                       /\ Answered(t)
           ELSE IF ~isPasswordStrong(body.Password)
                THEN Reply("createUser", 406, NoHeader, body, "password is not strong")
                       /\ Answered(t)
           ELSE GoOn(t, "write", <<>>)
    /\ UNCHANGED <<now, ticks, mux, fh>>

\* createNewUserHandler, the rest: CreateNewUser and the 201 response
createNewUserStore(t) ==
    /\ Serving
    /\ thr[t].op = "createUser"
    /\ thr[t].pc = "write"
    /\ LET body == thr[t].arg.body
           params == [Id |-> body.Id, Email |-> body.Email, Password |-> body.Password,
                      Is_chirpy_red |-> body.Is_chirpy_red]
       IN  IF bcryptTooLong(params.Password)
           THEN Fatal("createUser", NoHeader, body) /\ UNCHANGED thr
           ELSE /\ Cardinality(DOMAIN dbstruct.Users) < MaxUsers
                /\ ReplyStored("createUser", 201, NoHeader, body,
                               [Id |-> NewId(dbstruct.Users), Email |-> params.Email],
                               CreateNewUserMem(dbstruct, params))
                /\ Answered(t)
    /\ UNCHANGED <<now, ticks, mux, fh>>

\* updateUserHandler, up to GetUser: foundUser is a copy of the stored record
updateUserRead(t) ==
    /\ Serving
    /\ thr[t].op = "updateUser"
    /\ thr[t].pc = "read"
    /\ LET header == thr[t].arg.header
           body == thr[t].arg.body
           a == getJWTAndValidate(header, now)
           found == GetUser(dbstruct, Atoi(a.token.Subject).val)
       IN  IF a.err # "" THEN Reply("updateUser", 500, header, body, a.err) /\ Answered(t)
           ELSE IF a.token.Issuer # AccessIssuer
                THEN Reply("updateUser", 401, header, body, "not access token")
                       /\ Answered(t)
           ELSE IF found.err
                THEN Reply("updateUser", 500, header, body, "could not find user")
                       /\ Answered(t)
           ELSE GoOn(t, "write", found.val)
    /\ UNCHANGED <<now, ticks, mux, fh>>

\* updateUserHandler, the rest: the body's email and password are put into
\* the copy and UpdateUser stores the whole record
updateUserWrite(t) ==
    /\ Serving
    /\ thr[t].op = "updateUser"
    /\ thr[t].pc = "write"
    /\ LET header == thr[t].arg.header
           body == thr[t].arg.body
           foundUser == [thr[t].ret EXCEPT !.Email = body.Email,
                                           !.Password = body.Password]
       IN  IF body.malformed
           THEN Reply("updateUser", 500, header, body, "error decoding given body")
                  /\ Answered(t)
           ELSE IF bcryptTooLong(foundUser.Password)
                THEN Fatal("updateUser", header, body) /\ UNCHANGED thr
           ELSE /\ ReplyStored("updateUser", 200, header, body,
                               [Id |-> foundUser.Id, Email |-> foundUser.Email],
                               UpdateUserMem(dbstruct, foundUser))
                /\ Answered(t)
    /\ UNCHANGED <<now, ticks, mux, fh>>

\* a client logs in
loginServed ==
    \E body \in {b \in LoginRequests : b.Email = "a@x.com"} : authenticateUser(body)

\* the payment provider reports an upgrade
polkaUpgradeEvent ==
    \E id \in 1..MaxUsers :
        polkaWebhooks(<<"ApiKey", PolkaApiSecret>>,
                      [malformed |-> FALSE, Event |-> "user.upgraded", User_id |-> id])

NextServed ==
    \/ \E t \in Threads :
         \/ Accept(t)
         \/ createNewUserCheck(t)
         \/ createNewUserStore(t)
         \/ updateUserRead(t)
         \/ updateUserWrite(t)
    \/ loginServed
    \/ polkaUpgradeEvent

SpecServed == Init /\ [][NextServed]_vars

-----------------------------------------------------------------------------
(* Properties of the handlers *)

\* what the step just taken was given: the validated credential of the
\* request the step answered, read in the state the step started from
ReqAuth == getJWTAndValidate(resp'.header, now)

ReqUser == Atoi(ReqAuth.token.Subject)

ReqChirpId == Atoi(resp'.arg)

DeletedChirps == (DOMAIN dbstruct.Chirps) \ (DOMAIN dbstruct'.Chirps)

\* C1: a DELETE /api/chirps/{id} request with a valid token of user u removes
\* a chirp only if the stored chirp's author_id is u; when the author_id of
\* the addressed chirp differs from u the response is 403 Forbidden and the
\* chirp stays in the store.
C1_DeleteOnlyByAuthor ==
    [][(resp'.handler = "deleteChirp" /\ ReqAuth.err = "" /\ ~ReqUser.err)
         => /\ \A c \in DeletedChirps : dbstruct.Chirps[c].Author_id = ReqUser.val
            /\ (/\ ~ReqChirpId.err
                /\ ReqChirpId.val \in DOMAIN dbstruct.Chirps
                /\ dbstruct.Chirps[ReqChirpId.val].Author_id # ReqUser.val)
                 => /\ resp'.code = 403
                    /\ ReqChirpId.val \in DOMAIN dbstruct'.Chirps]_vars

\* C2: for every stored chirp c with author_id u, whatever the two numbers
\* are, a delete request for c with a valid access token of subject u
\* succeeds, and GetChirp(c.id) then returns not found.
C2_AuthorCanDelete ==
    [][(/\ resp'.handler = "deleteChirp"
        /\ ReqAuth.err = ""
        /\ ReqAuth.token.Issuer = AccessIssuer
        /\ ~ReqUser.err
        /\ ~ReqChirpId.err
        /\ ReqChirpId.val \in DOMAIN dbstruct.Chirps
        /\ dbstruct.Chirps[ReqChirpId.val].Author_id = ReqUser.val)
         => /\ resp'.code = 200
            /\ GetChirp(dbstruct', ReqChirpId.val).err]_vars

\* C3: the protected endpoints create or delete a chirp only for a request
\* that carries a validly signed, unexpired token of the access role; a
\* request with a refresh-role token never creates or deletes a chirp.
C3_ChirpsNeedAccessToken ==
    [][(/\ resp'.handler \in {"createChirp", "deleteChirp"}
        /\ dbstruct'.Chirps # dbstruct.Chirps)
         => /\ Len(resp'.header) = 2
            /\ resp'.header[2] \in issued
            /\ now < resp'.header[2].ExpiresAt
            /\ resp'.header[2].Issuer = AccessIssuer]_vars

\* C4: POST /api/refresh issues an access token only if the presented token
\* was signed by the server, has the refresh role, is not expired and is not
\* in the revoked set: an expired token is rejected, and so is a revoked one.
C4_RefreshOnlyForLiveRefreshToken ==
    [][(/\ resp'.handler = "refresh"
        /\ (resp'.code = 200 \/ issued' # issued))
         => /\ Len(resp'.header) = 2
            /\ resp'.header[2] \in issued
            /\ resp'.header[2].Issuer = RefreshIssuer
            /\ now < resp'.header[2].ExpiresAt
            /\ resp'.header[2] \notin DOMAIN dbstruct.RevokedRefreshTokens]_vars

\* a refresh has been answered with a new access token while another refresh
\* token is revoked and time has passed
C4_Witness ==
    /\ resp.handler = "refresh"
    /\ resp.code = 200
    /\ resp.out \in issued
    /\ DOMAIN dbstruct.RevokedRefreshTokens # {}
    /\ now > 0

-----------------------------------------------------------------------------
(* Properties of the store *)

MutatingOps ==
    {"CreateNewUser", "UpdateUser", "UpgradeUserToChirpyRed", "CreateChirp",
     "DeleteChirp", "RevokeRefreshToken"}

\* the mutation a returned call r made is part of the store state db
MutationIn(db, r) ==
    CASE r.handler \in {"CreateNewUser", "UpdateUser", "CreateChirp"} ->
           LET m == IF r.handler = "CreateChirp" THEN db.Chirps ELSE db.Users
           IN  r.out.Id \in DOMAIN m /\ m[r.out.Id] = r.out
      [] r.handler = "UpgradeUserToChirpyRed" ->
           r.arg \in DOMAIN db.Users /\ db.Users[r.arg].Is_chirpy_red
      [] r.handler = "DeleteChirp" -> r.arg \notin DOMAIN db.Chirps
      [] r.handler = "RevokeRefreshToken" -> r.arg \in DOMAIN db.RevokedRefreshTokens

C6_RevocationSurvivesReopen ==
    [][resp'.handler = "NewDB"
         => \A t \in StoreTokens :
              ~CheckRefreshTokenIsValid(dbstruct, t)
                 => ~CheckRefreshTokenIsValid(dbstruct', t)]_vars

\* C8: whenever a mutating store operation returns success, the backing file
\* holds a serialization of a state that includes the mutation, also when
\* file writes can fail.
C8_WriteThenAcknowledge ==
    (resp.handler \in MutatingOps /\ resp.code = 0)
        => /\ file.kind = "json"
           /\ MutationIn(loadDB(file), resp)

\* C9: if the file write of a mutating store operation fails, the operation
\* reports failure and the in-memory maps are what they were before.
C9_FailedWriteLeavesMemory ==
    [][(resp'.handler \in MutatingOps /\ faults' < faults)
         => /\ resp'.code # 0
            /\ dbstruct' = dbstruct]_vars

-----------------------------------------------------------------------------
(* Properties of the store under concurrent calls *)

\* inside a call: between taking the lock and releasing it, or, where the
\* code takes no lock, between the access to the maps and the end of writeDB
Inside(t) ==
    \/ mux.writer = t
    \/ t \in mux.readers
    \/ thr[t].pc \in {"open", "encode", "write"}

\* C7: every mutating store operation holds the exclusive lock from before
\* its first access to the maps until after its file write, so that two
\* mutations, or a mutation and a read, are never inside the store together.
C7_MutationsExclusive ==
    /\ \A t \in Threads :
         (thr[t].op \in MutatingOps /\ thr[t].pc \in {"open", "encode", "write"})
            => mux.writer = t
    /\ \A t1, t2 \in Threads :
         (t1 # t2 /\ Inside(t1) /\ Inside(t2))
            => (thr[t1].op \notin MutatingOps /\ thr[t2].op \notin MutatingOps)

\* C10: in every reachable state no two stored users have the same email.
C10_EmailsUnique ==
    \A i, j \in DOMAIN dbstruct.Users :
        dbstruct.Users[i].Email = dbstruct.Users[j].Email => i = j

-----------------------------------------------------------------------------
(* Properties of the ids *)

\* C13: across chirp creations and deletions, each new chirp gets an id
\* greater than every id given to an earlier chirp, deleted ones included.
C13_ChirpIdsIncrease ==
    [][(resp'.handler = "CreateChirp" /\ resp'.code = 0)
         => resp'.out.Id > maxIdGiven]_vars

\* C12: on an initially empty store the k-th successful registration is
\* given id k, so after N registrations the ids are exactly 1..N.
C12_UserIdsCountUp ==
    [][(resp'.handler = "createUser" /\ resp'.code = 201)
         => /\ resp'.out.Id = Cardinality(DOMAIN dbstruct.Users) + 1
            /\ DOMAIN dbstruct'.Users = 1..resp'.out.Id
            /\ dbstruct'.Users[resp'.out.Id].Id = resp'.out.Id
            /\ dbstruct'.Users[resp'.out.Id].Email = resp'.arg.Email]_vars

\* the second registration has just been answered with id 2, for a request
\* body that carried another id
C12_Witness ==
    /\ resp.handler = "createUser"
    /\ resp.code = 201
    /\ resp.out.Id = 2
    /\ resp.arg.Id # resp.out.Id

-----------------------------------------------------------------------------
(* Properties of the account endpoints *)

\* the request the step answered carried the webhook API key
ReqPolkaKeyOk == Len(resp'.header) = 2 /\ resp'.header[2] = PolkaApiSecret

\* C14: no request ends the process: whatever the request, also one whose
\* password the hasher rejects, the handler answers and the server keeps
\* serving.
C14_NoRequestEndsProcess ==
    [][(proc.alive /\ resp'.handler \in {"createUser", "login", "updateUser", "polka"})
         => proc'.alive]_vars

\* C15: a webhook request with a missing or an incorrect API key is answered
\* with 401 and an error payload, and changes no user.
C15_BadKeyIs401 ==
    [][(resp'.handler = "polka" /\ ~ReqPolkaKeyOk)
         => /\ resp'.code = 401
            /\ resp'.out # "panic"
            /\ dbstruct'.Users = dbstruct.Users]_vars

\* C18: a webhook request with the correct API key and an event other than
\* user.upgraded is acknowledged with success and leaves users, chirps,
\* revoked set and file as they were.
C18_OtherEventsNoEffect ==
    [][(/\ resp'.handler = "polka"
        /\ ReqPolkaKeyOk
        /\ ~resp'.arg.malformed
        /\ resp'.arg.Event # "user.upgraded")
         => /\ resp'.code = 200
            /\ dbstruct' = dbstruct
            /\ file' = file]_vars

\* a payment_failed event for a registered, not privileged user has just been
\* acknowledged
C18_Witness ==
    /\ resp.handler = "polka"
    /\ resp.code = 200
    /\ resp.arg.Event = "user.payment_failed"
    /\ resp.arg.User_id \in DOMAIN dbstruct.Users
    /\ ~dbstruct.Users[resp.arg.User_id].Is_chirpy_red

\* C19: UpgradeUserToChirpyRed(id) returns "user not found" and changes
\* nothing when no user has that id; applied to a user who is privileged
\* already it succeeds and leaves the users as they were.
C19_UpgradeNotFoundAndIdempotent ==
    [][resp'.handler = "UpgradeUserToChirpyRed"
         => /\ resp'.arg \notin DOMAIN dbstruct.Users
                 => /\ resp'.code = 1
                    /\ dbstruct' = dbstruct
                    /\ file' = file
            /\ (/\ resp'.arg \in DOMAIN dbstruct.Users
                /\ dbstruct.Users[resp'.arg].Is_chirpy_red)
                 => /\ resp'.code = 0
                    /\ dbstruct'.Users = dbstruct.Users]_vars

\* UpgradeUserToChirpyRed has just returned "user not found" for an id no
\* user has, on a store with a privileged user
C19_Witness ==
    /\ resp.handler = "UpgradeUserToChirpyRed"
    /\ resp.code = 1
    /\ resp.arg \notin DOMAIN dbstruct.Users
    /\ \E id \in DOMAIN dbstruct.Users : dbstruct.Users[id].Is_chirpy_red

\* C20: an access-role token presented to POST /api/refresh or POST
\* /api/revoke, and a refresh-role token presented to PUT /api/users, is
\* answered with 401 and the wrong-role message, a token that fails
\* validation is not answered with 401, and in the wrong-role case nothing is
\* stored and no token is issued.
C20_WrongRoleRejected ==
    [][resp'.handler \in {"refresh", "revoke", "updateUser"}
         => /\ ReqAuth.err # "" => resp'.code # 401
            /\ (/\ ReqAuth.err = ""
                /\ \/ /\ resp'.handler \in {"refresh", "revoke"}
                      /\ ReqAuth.token.Issuer = AccessIssuer
                   \/ /\ resp'.handler = "updateUser"
                      /\ ReqAuth.token.Issuer = RefreshIssuer)
                 => /\ resp'.code = 401
                    /\ resp'.out \in {"not refresh token", "not access token"}
                    /\ dbstruct' = dbstruct
                    /\ file' = file
                    /\ issued' = issued]_vars

\* an access token the server signed has just been refused by POST
\* /api/revoke, after a refresh token was revoked
C20_Witness ==
    /\ resp.handler = "revoke"
    /\ resp.code = 401
    /\ Len(resp.header) = 2
    /\ resp.header[2] \in issued
    /\ resp.header[2].Issuer = AccessIssuer
    /\ DOMAIN dbstruct.RevokedRefreshTokens # {}

-----------------------------------------------------------------------------
(* Properties of the account endpoints under concurrent requests *)

\* the request of goroutine t is answered in this step
AnsweredNow(t) == thr[t].pc # "done" /\ thr'[t].pc = "done"

\* C11: a registration whose email is the email of an existing user fails
\* with "email is already in use" and leaves users, chirps and revoked set
\* as they were.
C11_DuplicateEmailRejected ==
    [][\A t \in Threads :
         (/\ thr[t].op = "createUser"
          /\ AnsweredNow(t)
          /\ \E user \in GetUsers(dbstruct) : user.Email = thr[t].arg.body.Email)
           => /\ resp'.code = 406
              /\ resp'.out = "email is already in use"
              /\ dbstruct' = dbstruct]_vars

\* C16: a user's is_chirpy_red flag is false right after registration whatever
\* the request body holds, and it is true only for a user id for which a
\* user.upgraded webhook event has been answered with success: registrations
\* and user updates give the flag to no user who was not upgraded.
C16_RedOnlyByUpgrade ==
    [][\A id \in DOMAIN dbstruct'.Users :
         /\ id \notin DOMAIN dbstruct.Users => ~dbstruct'.Users[id].Is_chirpy_red
         /\ dbstruct'.Users[id].Is_chirpy_red => id \in upgradeEvents']_vars

\* a registration whose body said is_chirpy_red: true has just been answered
\* with success, the new user is not privileged, an upgraded user is
C16_Witness ==
    /\ resp.handler = "createUser"
    /\ resp.code = 201
    /\ resp.arg.Is_chirpy_red
    /\ ~dbstruct.Users[resp.out.Id].Is_chirpy_red
    /\ \E id \in DOMAIN dbstruct.Users : dbstruct.Users[id].Is_chirpy_red

\* C17: once a user's is_chirpy_red flag is true it is true in every later
\* state, however upgrade events and user updates for that user interleave.
C17_RedStaysRed ==
    [][\A id \in DOMAIN dbstruct.Users :
         dbstruct.Users[id].Is_chirpy_red
            => /\ id \in DOMAIN dbstruct'.Users
               /\ dbstruct'.Users[id].Is_chirpy_red]_vars

-----------------------------------------------------------------------------
(* Properties of the tokens *)

ProtectedHandlers == {"createChirp", "deleteChirp", "updateUser", "refresh", "revoke"}

\* C21: a token the server's key signed, presented after its expiry time has
\* passed, is rejected by validateToken with the expiry error, and the
\* operation it came with is not performed: no success response, nothing
\* stored, no token issued.
C21_ExpiredTokenRejected ==
    [][(/\ resp'.handler \in ProtectedHandlers
        /\ Len(resp'.header) = 2
        /\ resp'.header[2].sig = "HS256"
        /\ now > resp'.header[2].ExpiresAt)
         => /\ ReqAuth.err = "expired"
            /\ resp'.code \notin {200, 201}
            /\ dbstruct' = dbstruct
            /\ file' = file
            /\ issued' = issued]_vars

\* a refresh token the server signed has just been refused by POST
\* /api/refresh as expired, more than 1440 hours after it was issued
C21_Witness ==
    /\ resp.handler = "refresh"
    /\ resp.code = 500
    /\ resp.out = "expired"
    /\ Len(resp.header) = 2
    /\ resp.header[2] \in issued
    /\ resp.header[2].Issuer = RefreshIssuer
    /\ now > resp.header[2].ExpiresAt

\* the request the step answered carried a refresh token the server signed,
\* not expired and not revoked
ReqLiveRefreshToken ==
    /\ Len(resp'.header) = 2
    /\ resp'.header[2] \in issued
    /\ resp'.header[2].Issuer = RefreshIssuer
    /\ now < resp'.header[2].ExpiresAt
    /\ resp'.header[2] \notin DOMAIN dbstruct.RevokedRefreshTokens

\* C22: a successful refresh returns one access token signed now and leaves
\* the store unchanged: the presented refresh token is neither replaced nor
\* revoked, only the access token is added to the tokens issued, and a
\* refresh token that is neither revoked nor expired is accepted every time
\* it is presented.
C22_RefreshKeepsRefreshToken ==
    [][resp'.handler = "refresh"
         => /\ resp'.code = 200
                 => /\ resp'.out.Issuer = AccessIssuer
                    /\ resp'.out.IssuedAt = now
                    /\ issued' = issued \cup {resp'.out}
                    /\ dbstruct' = dbstruct
                    /\ file' = file
                    /\ CheckRefreshTokenIsValid(dbstruct', resp'.header[2])
                    /\ validateToken(resp'.header[2], now').err = ""
            /\ ReqLiveRefreshToken => resp'.code = 200]_vars

\* a refresh has just been answered with an access token, and an access
\* token of an earlier refresh is outstanding: no login issued it
C22_Witness ==
    /\ resp.handler = "refresh"
    /\ resp.code = 200
    /\ resp.out.IssuedAt = now
    /\ \E t \in issued :
         /\ t.Issuer = AccessIssuer
         /\ t.IssuedAt < now
         /\ \A r \in issued : r.Issuer = RefreshIssuer => r.IssuedAt # t.IssuedAt

-----------------------------------------------------------------------------
(* Properties of the chirps *)

Censored(body) == censorChirp(ListOfBadWords, body, BadWordReplacement)

\* C23: CreateChirp with a body longer than 140 returns "chirp is too long"
\* and stores nothing: the chirps, the id the next chirp will get and the
\* backing file are what they were before the call, also when the filtered
\* body would have been short enough.
C23_TooLongStoresNothing ==
    [][(resp'.handler = "CreateChirp" /\ Len(resp'.arg.Body) > MaxChirpLen)
         => /\ resp'.code = 1
            /\ resp'.out = "chirp is too long"
            /\ dbstruct' = dbstruct
            /\ NewId(dbstruct'.Chirps) = NewId(dbstruct.Chirps)
            /\ file' = file]_vars

\* CreateChirp has just refused a body of more than 140 characters that the
\* filter would have made short enough, on a store that holds a chirp
C23_Witness ==
    /\ resp.handler = "CreateChirp"
    /\ resp.code = 1
    /\ Len(resp.arg.Body) > MaxChirpLen
    /\ Len(Censored(resp.arg.Body)) <= MaxChirpLen
    /\ DOMAIN dbstruct.Chirps # {}

\* C24: in every reachable state every stored chirp body has length at most
\* 140 and is content-filtered: the filter applied to it gives the same body.
C24_StoredBodiesFiltered ==
    \A id \in DOMAIN dbstruct.Chirps :
        /\ Len(dbstruct.Chirps[id].Body) <= MaxChirpLen
        /\ Censored(dbstruct.Chirps[id].Body) = dbstruct.Chirps[id].Body

\* a chirp whose body had 140 characters and a denylisted word is stored,
\* shorter than it was sent, and the store has been opened again
C24_Witness ==
    /\ proc.epoch > 1
    /\ \E id \in DOMAIN dbstruct.Chirps :
         /\ dbstruct.Chirps[id].Body = Censored(BodyEdge)
         /\ Len(dbstruct.Chirps[id].Body) < Len(BodyEdge)

\* a whitespace character
IsSpace(c) == c \in {" ", "\t", "\n"}

\* a token, replaced if it is a denylisted word in any case
Masked(token) ==
    IF \E b \in 1..Len(ListOfBadWords) : ToLower(token) = ListOfBadWords[b]
    THEN BadWordReplacement
    ELSE token

\* the body with exactly its denylisted whitespace-delimited tokens replaced
RECURSIVE MaskTokens(_)
MaskTokens(body) ==
    IF \A i \in 1..Len(body) : ~IsSpace(body[i]) THEN Masked(body)
    ELSE LET k == CHOOSE i \in 1..Len(body) :
                      IsSpace(body[i]) /\ \A j \in 1..(i - 1) : ~IsSpace(body[j])
         IN  Masked(SubSeq(body, 1, k - 1)) \o <<body[k]>>
                 \o MaskTokens(SubSeq(body, k + 1, Len(body)))

\* C25: censorChirp replaces with "****" exactly the whitespace-delimited
\* tokens of the body that equal a denylisted word ignoring case, and leaves
\* every other token, also "kerfuffle!", and every separator as it was.
C25_MasksDenylistedTokens ==
    resp.handler = "censorChirp" => resp.out = MaskTokens(resp.arg)

\* C26: censorChirp is idempotent: censorChirp applied to a body it returned
\* returns that body.
C26_FilterIdempotent ==
    resp.handler = "censorChirp again" => resp.out = resp.arg

\* censorChirp has just been applied again to a body of which it had
\* replaced two words and kept a punctuation-attached one
C26_Witness ==
    /\ resp.handler = "censorChirp again"
    /\ resp.arg = BadWordReplacement \o <<" ">> \o ListOfBadWords[1] \o <<"!", " ">>
                    \o BadWordReplacement

-----------------------------------------------------------------------------
(* Properties of the users and of login *)

\* C27: after CreateNewUser with email e and raw password p has returned id
\* i, GetUser(i) returns a record whose email is e and whose stored password
\* verifies against p and is not p.
C27_CreateThenGetUser ==
    [][(resp'.handler = "CreateNewUser" /\ proc'.alive /\ resp'.code = 0)
         => LET got == GetUser(dbstruct', resp'.out.Id)
            IN  /\ ~got.err
                /\ got.val.Id = resp'.out.Id
                /\ got.val.Email = resp'.arg.Email
                /\ bcryptCompareHashAndPassword(got.val.Password, resp'.arg.Password)
                /\ got.val.Password # resp'.arg.Password]_vars

\* CreateNewUser has just returned id 2, and GetUser(2) gives the new record
C27_Witness ==
    /\ resp.handler = "CreateNewUser"
    /\ proc.alive
    /\ resp.code = 0
    /\ resp.out.Id = 2
    /\ GetUser(dbstruct, 2).val = resp.out

ReqEmailUsers == {u \in GetUsers(dbstruct) : u.Email = resp'.arg.Email}

\* C29: POST /api/login issues tokens only when a user with the given email
\* exists and the stored hash of that user is the hash of the submitted
\* password; when users with the email exist and the password matches the
\* hash of none of them, the answer is 401 and no token is issued.
C29_LoginNeedsPassword ==
    [][resp'.handler = "login"
         => /\ (resp'.code = 200 \/ issued' # issued)
                 => \E u \in ReqEmailUsers :
                      /\ u.Password = bcryptGenerateFromPassword(resp'.arg.Password)
                      /\ resp'.out.Id = u.Id
            /\ (/\ ReqEmailUsers # {}
                /\ \A u \in ReqEmailUsers :
                     u.Password # bcryptGenerateFromPassword(resp'.arg.Password))
                 => /\ resp'.code = 401
                    /\ issued' = issued]_vars

\* a login with the password a user had before an update has just been
\* refused, after an earlier login was given tokens
C29_Witness ==
    /\ resp.handler = "login"
    /\ resp.code = 401
    /\ resp.arg.Password = StrongPw
    /\ \E u \in GetUsers(dbstruct) :
         /\ u.Email = resp.arg.Email
         /\ u.Password = bcryptGenerateFromPassword(OtherPw)
    /\ issued # {}

-----------------------------------------------------------------------------
(* Properties of the listings *)

Reverse(s) == [i \in 1..Len(s) |-> s[Len(s) + 1 - i]]

\* list holds every chirp of the set S exactly once, by ascending id, or by
\* descending id when desc is true
IsListingOf(list, S, desc) ==
    /\ Len(list) = Cardinality(S)
    /\ {list[i] : i \in 1..Len(list)} = S
    /\ \A i \in 1..(Len(list) - 1) :
         IF desc THEN list[i].Id > list[i + 1].Id ELSE list[i].Id < list[i + 1].Id

C32_ListsChirpsOfAuthor ==
    (resp.handler = "readChirps" /\ ~Atoi(resp.arg.author_id).err)
        => /\ resp.code = 200
           /\ IsListingOf(resp.out,
                          {c \in StoredChirps(dbstruct) :
                              c.Author_id = Atoi(resp.arg.author_id).val},
                          resp.arg.sort = "desc")

\* the chirps of an author who has none have just been listed as the empty
\* list, while the store holds chirps of two other authors
C32_Witness ==
    /\ resp.handler = "readChirps"
    /\ resp.code = 200
    /\ resp.out = <<>>
    /\ resp.arg.author_id = Itoa(MaxUsers + 1)
    /\ Cardinality({c.Author_id : c \in StoredChirps(dbstruct)}) = 2

-----------------------------------------------------------------------------
(* Properties of the store lock *)

InCall(t) == thr[t].pc \notin {"idle", "done"}

LockNeverDeadlocks == \A t \in Threads : InCall(t) ~> (thr[t].pc = "done" \/ ~proc.alive)

-----------------------------------------------------------------------------
(* Properties of revocation and of a new store *)

\* C34: RevokeRefreshToken called with a token that is in the revoked set
\* already returns without an error and leaves the revoked set, the users and
\* the chirps as they were.
C34_RevokeAgainChangesNothing ==
    [][(/\ resp'.handler \in {"RevokeRefreshToken", "RevokeRefreshToken again"}
        /\ resp'.arg \in DOMAIN dbstruct.RevokedRefreshTokens)
          => /\ resp'.code = 0
             /\ proc'.alive
             /\ dbstruct'.RevokedRefreshTokens = dbstruct.RevokedRefreshTokens
             /\ dbstruct'.Users = dbstruct.Users
             /\ dbstruct'.Chirps = dbstruct.Chirps]_vars

\* a revoked token was revoked once more, in a store that holds another
\* revoked token, a user and a chirp
C34_Witness ==
    /\ resp.handler = "RevokeRefreshToken again"
    /\ Cardinality(DOMAIN dbstruct.RevokedRefreshTokens) = 2
    /\ dbstruct.Users # EmptyMap
    /\ dbstruct.Chirps # EmptyMap

\* the password is one bcrypt hashes
ReqHashable == ~bcryptTooLong(resp'.arg.Password)

\* C35: NewDB on a path with no file or an empty file creates the file and
\* yields a store with no users, no chirps and no revoked tokens, and the
\* calls made on that store work: the first revocation revokes, the first
\* user and the first chirp are stored under id 1, no token reads as revoked.
C35_NewDBOnFreshFile ==
    [][/\ (resp'.handler = "NewDB" /\ file.kind \in {"absent", "empty"})
          => /\ file'.kind = "empty"
             /\ proc'.alive
             /\ dbstruct' = EmptyDBStructure
       /\ (resp.handler = "NewDB" /\ file.kind = "empty")
          => /\ resp'.handler = "RevokeRefreshToken"
                  => /\ resp'.code = 0
                     /\ DOMAIN dbstruct'.RevokedRefreshTokens = {resp'.arg}
                     /\ ~CheckRefreshTokenIsValid(dbstruct', resp'.arg)
             /\ (resp'.handler = "CreateNewUser" /\ ReqHashable)
                  => /\ resp'.code = 0
                     /\ DOMAIN dbstruct'.Users = {1}
                     /\ dbstruct'.Users[1] = resp'.out
             /\ (resp'.handler = "CreateChirp" /\ ~ChirpTooLong(resp'.arg))
                  => /\ resp'.code = 0
                     /\ DOMAIN dbstruct'.Chirps = {1}
                     /\ dbstruct'.Chirps[1] = resp'.out
             /\ resp'.handler = "CheckRefreshTokenIsValid" => resp'.out = TRUE]_vars

\* the first revocation on a store that NewDB made of a fresh file, written
\* to the file
C35_Witness ==
    /\ resp.handler = "RevokeRefreshToken"
    /\ proc.epoch = 1
    /\ dbstruct.Users = EmptyMap
    /\ DOMAIN dbstruct.RevokedRefreshTokens = {resp.arg}
    /\ file = JSONFile(EncodeJSON(dbstruct))

-----------------------------------------------------------------------------
(* Properties of the file under concurrent calls *)

\* no goroutine is inside a mutating call
Quiet == \A t \in Threads : thr[t].op \in MutatingOps => thr[t].pc = "done"

\* C36: whenever no mutating operation is in progress, the file holds the
\* serialization of the users, chirps and revoked tokens in memory (and
\* nothing as long as no mutation has been made), whichever mutations ran
\* concurrently before, the ones without the lock among them.
C36_FileIsMemoryWhenQuiet ==
    (proc.alive /\ Quiet)
        => IF file.kind = "json" THEN file.doc = EncodeJSON(dbstruct)
           ELSE dbstruct = EmptyDBStructure

-----------------------------------------------------------------------------
(* Properties of the chirp a request creates *)

\* C37: the chirp that POST /api/chirps stores has the subject of the
\* presented token as its author_id and the id the store chose, the highest
\* stored id plus one; the id and the author_id of the request body are in
\* neither field.
C37_AuthorFromTokenIdFromStore ==
    [][(resp'.handler = "createChirp" /\ resp'.code = 201)
          => LET id == NewId(dbstruct.Chirps)
             IN  /\ DOMAIN dbstruct'.Chirps = DOMAIN dbstruct.Chirps \cup {id}
                 /\ dbstruct'.Chirps[id] = resp'.out
                 /\ dbstruct'.Chirps[id].Id = id
                 /\ Itoa(dbstruct'.Chirps[id].Author_id) = resp'.header[2].Subject]_vars

\* a chirp was created by a request whose body named an id and an author_id
\* of its own, neither of which is the stored one
C37_Witness ==
    /\ resp.handler = "createChirp"
    /\ resp.code = 201
    /\ resp.arg.Id = 9
    /\ resp.arg.Author_id = 9
    /\ resp.out.Id # 9
    /\ resp.out.Author_id # 9
    /\ resp.out.Id \in DOMAIN dbstruct.Chirps

-----------------------------------------------------------------------------
(* What a mutation leaves alone *)

\* the step changes no user but id, no chirp and no revoked token, and
\* neither adds nor removes a user
OnlyUserChanges(id) ==
    /\ DOMAIN dbstruct'.Users = DOMAIN dbstruct.Users
    /\ \A u \in DOMAIN dbstruct.Users \ {id} : dbstruct'.Users[u] = dbstruct.Users[u]
    /\ dbstruct'.Chirps = dbstruct.Chirps
    /\ dbstruct'.RevokedRefreshTokens = dbstruct.RevokedRefreshTokens

\* the step changes no chirp but id, no user and no revoked token
OnlyChirpChanges(id) ==
    /\ dbstruct'.Users = dbstruct.Users
    /\ dbstruct'.RevokedRefreshTokens = dbstruct.RevokedRefreshTokens
    /\ DOMAIN dbstruct'.Chirps \ {id} = DOMAIN dbstruct.Chirps \ {id}
    /\ \A c \in DOMAIN dbstruct.Chirps \ {id} : dbstruct'.Chirps[c] = dbstruct.Chirps[c]

\* C38: each mutation changes only its own target.  A user update changes
\* nothing but the email and the password of the user of the token, whose id
\* and flag stay; an upgrade changes nothing but the flag of its user; the
\* creation and the deletion of a chirp leave the users, the other chirps and
\* the revoked set as they were; a revocation leaves users and chirps as they
\* were.
C38_MutationsChangeOnlyTarget ==
    [][/\ (resp'.handler = "updateUser" /\ resp'.code = 200)
          => LET id == Atoi(resp'.header[2].Subject).val
             IN  /\ OnlyUserChanges(id)
                 /\ dbstruct'.Users[id].Id = dbstruct.Users[id].Id
                 /\ dbstruct'.Users[id].Is_chirpy_red = dbstruct.Users[id].Is_chirpy_red
       /\ (resp'.handler = "polka" /\ resp'.code = 200 /\ isUpgradeEvent(resp'.arg.Event))
          => LET id == resp'.arg.User_id
             IN  /\ OnlyUserChanges(id)
                 /\ dbstruct'.Users[id].Id = dbstruct.Users[id].Id
                 /\ dbstruct'.Users[id].Email = dbstruct.Users[id].Email
                 /\ dbstruct'.Users[id].Password = dbstruct.Users[id].Password
       /\ (resp'.handler = "createChirp" /\ resp'.code = 201)
          => OnlyChirpChanges(resp'.out.Id)
       /\ (resp'.handler = "deleteChirp" /\ resp'.code = 200)
          => OnlyChirpChanges(Atoi(resp'.arg).val)
       /\ (resp'.handler = "revoke" /\ resp'.code = 200)
          => /\ dbstruct'.Users = dbstruct.Users
             /\ dbstruct'.Chirps = dbstruct.Chirps]_vars

-----------------------------------------------------------------------------
(* Properties of what is revoked *)

\* C39: a token string enters the revoked set only through POST /api/revoke,
\* and only when it is, at that time, a refresh token with a valid signature
\* that has not expired: never an access token, an expired token or a string
\* that is no token of the server.
C39_OnlyLiveRefreshTokensRevoked ==
    [][\A t \in DOMAIN dbstruct'.RevokedRefreshTokens \ DOMAIN dbstruct.RevokedRefreshTokens :
          /\ resp'.handler = "revoke"
          /\ resp'.header[2] = t
          /\ t \in issued
          /\ t.sig = "HS256"
          /\ t.Issuer = RefreshIssuer
          /\ now < t.ExpiresAt]_vars

\* a refresh token has been revoked some time after it was signed, on a
\* server that has also signed access tokens
C39_Witness ==
    /\ resp.handler = "revoke"
    /\ resp.code = 200
    /\ now > 0
    /\ resp.header[2] \in DOMAIN dbstruct.RevokedRefreshTokens
    /\ resp.header[2].IssuedAt < now
    /\ \E a \in issued : a.Issuer = AccessIssuer

-----------------------------------------------------------------------------
(* Properties of the Authorization header *)

\* the scheme word a handler's credential comes with
SchemeOf(handler) == IF handler = "polka" THEN "ApiKey" ELSE "Bearer"

\* C40: a request to a protected endpoint is authenticated only when its
\* Authorization header is "Bearer <token>", "ApiKey <key>" for the upgrade
\* webhook; a header with another scheme word, or with the scheme word and
\* no credential after it, is answered 401 Unauthorized.
C40_SchemeAndCredentialRequired ==
    (resp.handler \in ProtectedHandlers \cup {"polka"})
        => /\ resp.code \in {200, 201}
                => (Len(resp.header) = 2 /\ resp.header[1] = SchemeOf(resp.handler))
           /\ (Len(resp.header) = 2 /\ resp.header[1] # SchemeOf(resp.handler))
                => resp.code = 401
           /\ resp.header = <<SchemeOf(resp.handler)>> => resp.code = 401

====
